---------------------------- MODULE Spec2Model ----------------------------
(***************************************************************************)
(* A model of the Logger of twg-group/nestjs-logger (src/src/logger.ts).   *)
(*                                                                         *)
(* JavaScript values are modelled by records of one shape,                 *)
(*   [t |-> type tag, s |-> text payload, n |-> numeric payload,           *)
(*    c |-> children],                                                     *)
(* where the children of a list are its items and the children of a        *)
(* mapping (or the own enumerable properties of an error) are its entries  *)
(* in insertion order, each [k |-> key, v |-> value].                      *)
(***************************************************************************)
EXTENDS Integers, Sequences, FiniteSets, TLC

(***************************************************************************)
(* Bounds of the model.                                                    *)
(***************************************************************************)
\* the wall clock runs from 1 to MaxClock milliseconds
MaxClock == 3
\* operations performed on one logger in a behaviour of Spec
MaxOps == 2

(***************************************************************************)
(* JavaScript values.                                                      *)
(***************************************************************************)
Str(x) == [t |-> "string", s |-> x, n |-> 0, c |-> <<>>]

Num(i) == [t |-> "number", s |-> "", n |-> i, c |-> <<>>]

Bool(b) == [t |-> "boolean", s |-> IF b THEN "true" ELSE "false", n |-> 0, c |-> <<>>]

Null == [t |-> "null", s |-> "", n |-> 0, c |-> <<>>]

Undefined == [t |-> "undefined", s |-> "", n |-> 0, c |-> <<>>]

Entry(key, value) == [k |-> key, v |-> value]

\* a list of the values items[1], items[2], ...
List(items) == [t |-> "list", s |-> "", n |-> 0,
                c |-> [i \in 1..Len(items) |-> Entry("", items[i])]]

\* a mapping with the entries given, in insertion order
Map(entries) == [t |-> "map", s |-> "", n |-> 0, c |-> entries]

\* an Error with the message given and the own enumerable properties given
\* (a cause assigned after construction is one of them)
Err(message, props) == [t |-> "error", s |-> message, n |-> 0, c |-> props]

\* a reference back to the message or parameter that holds it, as obj.self is
\* after obj.self = obj; it occurs inside mappings and lists
Ref == [t |-> "ref", s |-> "", n |-> 0, c |-> <<>>]

\* the value refers back to itself somewhere
RECURSIVE HasRef(_)
HasRef(v) == v.t = "ref" \/ \E i \in 1..Len(v.c) : HasRef(v.c[i].v)

Keys(v) == {v.c[i].k : i \in 1..Len(v.c)}

\* the value of the last entry with the key given (a later assignment wins)
RECURSIVE GetFrom(_, _, _)
GetFrom(entries, key, i) ==
  IF i = 0 THEN Undefined
  ELSE IF entries[i].k = key THEN entries[i].v
  ELSE GetFrom(entries, key, i - 1)

Get(v, key) == GetFrom(v.c, key, Len(v.c))

\* obj[key] = value: replaces the value in place, or appends a new entry
SetEntry(entries, key, value) ==
  IF \E i \in 1..Len(entries) : entries[i].k = key
    THEN [i \in 1..Len(entries) |->
            IF entries[i].k = key THEN Entry(key, value) ELSE entries[i]]
    ELSE Append(entries, Entry(key, value))

\* delete obj[key]
RECURSIVE DeleteEntry(_, _)
DeleteEntry(entries, key) ==
  IF entries = <<>> THEN <<>>
  ELSE IF Head(entries).k = key THEN DeleteEntry(Tail(entries), key)
  ELSE <<Head(entries)>> \o DeleteEntry(Tail(entries), key)

\* { ...a, ...b }
RECURSIVE Spread(_, _)
Spread(a, b) ==
  IF b = <<>> THEN a
  ELSE Spread(SetEntry(a, Head(b).k, Head(b).v), Tail(b))

\* String.prototype.toLowerCase on the keys the model uses
toLowerCase(x) ==
  CASE x = "Password" -> "password"
    [] x = "PASSWORD" -> "password"
    [] x = "apiKey" -> "apikey"
    [] x = "APIKEY" -> "apikey"
    [] OTHER -> x

Redacted == Str("[REDACTED]")


(***************************************************************************)
(* JSON.stringify and JSON.parse.  The encoded text is a sequence of       *)
(* tokens; the pretty-printed form adds whitespace tokens.                  *)
(***************************************************************************)
Tok(kind, text, num) == [k |-> kind, s |-> text, n |-> num]

Punct(x) == Tok("punct", x, 0)

RECURSIVE Indent(_)
Indent(depth) == IF depth = 0 THEN "" ELSE "  " \o Indent(depth - 1)

\* the line break and indentation JSON.stringify(v, null, 2) writes at a depth
NewLine(pretty, depth) ==
  IF pretty THEN <<Tok("ws", "\n" \o Indent(depth), 0)>> ELSE <<>>

\* the space JSON.stringify(v, null, 2) writes after a colon
Gap(pretty) == IF pretty THEN <<Tok("ws", " ", 0)>> ELSE <<>>

\* every entry, those whose value is undefined with the others
EveryEntry(entries) == entries

\* the entries JSON.stringify writes: a property whose value is undefined is
\* left out
RECURSIVE Serializable(_)
Serializable(entries) ==
  IF entries = <<>> THEN <<>>
  ELSE IF Head(entries).v.t = "undefined" THEN Serializable(Tail(entries))
  ELSE <<Head(entries)>> \o Serializable(Tail(entries))

RECURSIVE Stringify(_, _, _)
RECURSIVE StringifyItems(_, _, _, _)
RECURSIVE StringifyMembers(_, _, _, _)
\* JSON.stringify of a value nested depth levels deep
Stringify(v, pretty, depth) ==
  CASE v.t = "string" -> <<Tok("string", v.s, 0)>>
    [] v.t = "number" -> <<Tok("number", ToString(v.n), v.n)>>
    [] v.t = "boolean" -> <<Tok("lit", v.s, 0)>>
    [] v.t = "null" -> <<Tok("lit", "null", 0)>>
    \* an undefined array item is written as null
    [] v.t = "undefined" -> <<Tok("lit", "null", 0)>>
    [] v.t = "list" ->
         IF v.c = <<>> THEN <<Punct("["), Punct("]")>>
         ELSE <<Punct("[")>> \o StringifyItems(v.c, pretty, depth + 1, 1)
                \o NewLine(pretty, depth) \o <<Punct("]")>>
    \* a mapping, or an error: its own enumerable properties
    [] OTHER ->
         IF Serializable(v.c) = <<>> THEN <<Punct("{"), Punct("}")>>
         ELSE <<Punct("{")>>
                \o StringifyMembers(Serializable(v.c), pretty, depth + 1, 1)
                \o NewLine(pretty, depth) \o <<Punct("}")>>

StringifyItems(items, pretty, depth, i) ==
  IF i > Len(items) THEN <<>>
  ELSE (IF i > 1 THEN <<Punct(",")>> ELSE <<>>)
         \o NewLine(pretty, depth)
         \o Stringify(items[i].v, pretty, depth)
         \o StringifyItems(items, pretty, depth, i + 1)

StringifyMembers(entries, pretty, depth, i) ==
  IF i > Len(entries) THEN <<>>
  ELSE (IF i > 1 THEN <<Punct(",")>> ELSE <<>>)
         \o NewLine(pretty, depth)
         \o <<Tok("string", entries[i].k, 0), Punct(":")>> \o Gap(pretty)
         \o Stringify(entries[i].v, pretty, depth)
         \o StringifyMembers(entries, pretty, depth, i + 1)

\* JSON.stringify(v) and JSON.stringify(v, null, 2)
JSON_stringify(v, pretty) == Stringify(v, pretty, 0)

IsWhitespace(tok) == tok.k = "ws"

StripWhitespace(toks) == SelectSeq(toks, LAMBDA tok : ~IsWhitespace(tok))

RECURSIVE ParseValue(_, _)
RECURSIVE ParseItems(_, _, _)
RECURSIVE ParseMembers(_, _, _)
\* the value that starts at token i, and the index of the token after it
ParseValue(toks, i) ==
  LET tok == toks[i] IN
  CASE tok.k = "string" -> [v |-> Str(tok.s), i |-> i + 1]
    [] tok.k = "number" -> [v |-> Num(tok.n), i |-> i + 1]
    [] tok.k = "lit" ->
         [v |-> IF tok.s = "null" THEN Null ELSE Bool(tok.s = "true"),
          i |-> i + 1]
    [] tok = Punct("[") ->
         IF toks[i + 1] = Punct("]") THEN [v |-> List(<<>>), i |-> i + 2]
         ELSE ParseItems(toks, i + 1, <<>>)
    [] tok = Punct("{") ->
         IF toks[i + 1] = Punct("}") THEN [v |-> Map(<<>>), i |-> i + 2]
         ELSE ParseMembers(toks, i + 1, <<>>)

ParseItems(toks, i, acc) ==
  LET item == ParseValue(toks, i)
      items == Append(acc, item.v)
  IN IF toks[item.i] = Punct(",") THEN ParseItems(toks, item.i + 1, items)
     ELSE [v |-> List(items), i |-> item.i + 1]

ParseMembers(toks, i, acc) ==
  LET member == ParseValue(toks, i + 2)
      entries == SetEntry(acc, toks[i].s, member.v)
  IN IF toks[member.i] = Punct(",")
       THEN ParseMembers(toks, member.i + 1, entries)
       ELSE [v |-> Map(entries), i |-> member.i + 1]

\* JSON.parse: whitespace between tokens is skipped
JSON_parse(toks) == ParseValue(StripWhitespace(toks), 1).v

(***************************************************************************)
(* The state of one Logger, of its environment, and what the last          *)
(* operation did.                                                          *)
(***************************************************************************)
VARIABLES
  config,            \* this.config: the merged options, option name -> value
  timestamp,         \* this.timestamp: the clock reading of the last tick
  ctxParams,         \* this.ctxParams
  additionalFields,  \* this.additionalFields, entries in insertion order
  redactKeys,        \* this.redactKeys: a Set, members in insertion order
  logLevels,         \* this.logLevels: a Set, members in insertion order
  context,           \* this.context of the base ConsoleLogger
  env,               \* process.env.SERVICE_NAME
  now,               \* the wall clock, in milliseconds
  out,               \* the console writes of the last operation
  lastOp,            \* the last operation, how it ended, what it returned
                     \* ("this" or "undefined") and, for a call of
                     \* an entry point, this.timestamp when it was called
  budget,            \* the operations the logger may still perform, or -1
                     \* when their number is not bounded
  lastTick,          \* the clock reading when a record last reported a
                     \* timestamp diff, 0 if none has since construction or
                     \* the last resetTimestamp()
  probe              \* a value and the results of redacting it repeatedly;
                     \* in SpecOptions the options and module options the
                     \* logger was constructed with

vars == <<config, timestamp, ctxParams, additionalFields, redactKeys,
          logLevels, context, env, now, out, lastOp, budget, lastTick, probe>>

(***************************************************************************)
(* JavaScript helpers.                                                     *)
(***************************************************************************)
\* Boolean(v)
Truthy(v) ==
  CASE v.t = "string" -> v.s # ""
    [] v.t = "number" -> v.n # 0
    [] v.t = "boolean" -> v.s = "true"
    [] v.t = "null" -> FALSE
    [] v.t = "undefined" -> FALSE
    [] OTHER -> TRUE

\* a || b
OrElse(a, b) == IF Truthy(a) THEN a ELSE b

RECURSIVE Join(_, _)
\* Array.prototype.join over a sequence of strings
Join(strs, sep) ==
  IF strs = <<>> THEN ""
  ELSE IF Len(strs) = 1 THEN strs[1]
  ELSE strs[1] \o sep \o Join(Tail(strs), sep)

RECURSIVE String(_)
\* String(v), as in a template literal
String(v) ==
  CASE v.t = "string" -> v.s
    [] v.t = "number" -> ToString(v.n)
    [] v.t = "boolean" -> v.s
    [] v.t = "null" -> "null"
    [] v.t = "undefined" -> "undefined"
    [] v.t = "list" ->
         Join([i \in 1..Len(v.c) |->
                 IF v.c[i].v.t \in {"null", "undefined"} THEN ""
                 ELSE String(v.c[i].v)], ",")
    [] v.t = "error" -> "Error: " \o v.s
    [] OTHER -> "[object Object]"

\* new Set(list): the distinct members, in order of first insertion
RECURSIVE NewSet(_)
NewSet(list) ==
  IF list = <<>> THEN <<>>
  ELSE LET init == NewSet(SubSeq(list, 1, Len(list) - 1))
           last == list[Len(list)]
       IN IF \E i \in 1..Len(init) : init[i] = last THEN init
          ELSE Append(init, last)

\* set.has(x)
Has(set, x) == \E i \in 1..Len(set) : set[i] = x

\* an add that appends x whether or not it is a member
SetAddAgain(set, x) == Append(set, x)

\* set.add(x)
SetAdd(set, x) == IF Has(set, x) THEN set ELSE Append(set, x)

\* set.delete(x)
SetDelete(set, x) == SelectSeq(set, LAMBDA y : y # x)

\* { ...a, ...b } of two option objects
Merge(a, b) ==
  [name \in DOMAIN a \cup DOMAIN b |->
     IF name \in DOMAIN b THEN b[name] ELSE a[name]]

\* an option that is a list, and one that is a Set
Array(items) == [kind |-> "array", items |-> items]

SetOf(items) == [kind |-> "set", items |-> NewSet(items)]

\* Array.from(x)
ArrayFrom(x) == x.items

\* x?.length > 0: a Set has no length
LengthPositive(x) == x.kind = "array" /\ Len(x.items) > 0

\* new Date(ms).toISOString()
toISOString(ms) == "1970-01-01T00:00:00.00" \o ToString(ms) \o "Z"

(***************************************************************************)
(* Colors (src/src/interfaces.ts and the clc of @nestjs/common).           *)
(***************************************************************************)
ColorCode(fn) ==
  CASE fn = "gray" -> "90"
    [] fn = "redBright" -> "91"
    [] fn = "greenBright" -> "92"
    [] fn = "yellowBright" -> "93"
    [] fn = "blueBright" -> "94"
    [] fn = "magentaBright" -> "95"
    [] fn = "cyanBright" -> "96"
    [] fn = "whiteBright" -> "97"
    [] fn = "blue" -> "34"
    [] fn = "green" -> "32"
    [] fn = "yellow" -> "33"
    [] fn = "bold" -> "1"
    [] fn = "redOrange" -> "38;5;202"
    [] fn = "brightRedOrange" -> "38;5;208"

\* clc[fn](text); the function "identity" returns the text as it is
clc(fn, text) ==
  IF fn = "identity" THEN text
  ELSE "\\x1b[" \o ColorCode(fn) \o "m" \o text \o "\\x1b[0m"

Format(level, message) == [levelColor |-> level, messageColor |-> message]

levelFormats ==
  [LOG |-> Format("greenBright", "undefined"),
   ERROR |-> Format("redBright", "redBright"),
   FATAL |-> Format("redOrange", "brightRedOrange"),
   WARN |-> Format("yellowBright", "yellowBright"),
   INFO |-> Format("cyanBright", "cyanBright"),
   DEBUG |-> Format("magentaBright", "magentaBright"),
   VERBOSE |-> Format("blueBright", "blueBright")]

AllLevels == <<"log", "error", "warn", "debug", "verbose", "fatal", "info">>

\* defaultOptions; id is read from the environment when the module loads
defaultOptions ==
  [id |-> OrElse(env, Str("Nest")).s,
   jsonFormat |-> FALSE,
   prettyPrintJson |-> FALSE,
   levelFormats |-> levelFormats,
   redactKeys |-> Array(<<>>),
   logLevels |-> Array(AllLevels)]

\* this.config?.timestamp
TimestampEnabled == "timestamp" \in DOMAIN config /\ config.timestamp

(***************************************************************************)
(* Redaction and the formatters.                                           *)
(***************************************************************************)
\* a comparison of the keys that tells the cases of the letters apart
shouldRedactExactCase(key) ==
  \E i \in 1..Len(ArrayFrom(config.redactKeys)) :
    key = ArrayFrom(config.redactKeys)[i]

\* Array.from(this.config.redactKeys).some(k => key.toLowerCase() === k.toLowerCase())
shouldRedact(key) ==
  \E i \in 1..Len(ArrayFrom(config.redactKeys)) :
    toLowerCase(key) = toLowerCase(ArrayFrom(config.redactKeys)[i])

\* redactSensitiveData comes back to the value it started from: it follows
\* every item of a list and every property but those it redacts, and keeps no
\* record of the objects it has visited
RECURSIVE ReachesRef(_)
ReachesRef(obj) ==
  CASE obj.t = "ref" -> TRUE
    [] obj.t = "list" -> \E i \in 1..Len(obj.c) : ReachesRef(obj.c[i].v)
    [] obj.t \in {"map", "error"} ->
         \E i \in 1..Len(obj.c) :
           ~shouldRedact(obj.c[i].k) /\ ReachesRef(obj.c[i].v)
    [] OTHER -> FALSE

RECURSIVE redactSensitiveData(_)
\* a redaction that hands back every list in the opposite order
redactReversingLists(obj) ==
  CASE obj.t = "list" ->
         List([i \in 1..Len(obj.c) |->
                redactSensitiveData(obj.c[Len(obj.c) + 1 - i].v)])
    [] obj.t \in {"map", "error"} ->
         Map([i \in 1..Len(obj.c) |->
                Entry(obj.c[i].k,
                      IF shouldRedact(obj.c[i].k) THEN Redacted
                      ELSE redactSensitiveData(obj.c[i].v))])
    [] OTHER -> obj

redactSensitiveData(obj) ==
  CASE obj.t = "list" ->
         List([i \in 1..Len(obj.c) |-> redactSensitiveData(obj.c[i].v)])
    \* Object.entries of a mapping, or of an error: its enumerable properties
    [] obj.t \in {"map", "error"} ->
         Map([i \in 1..Len(obj.c) |->
                Entry(obj.c[i].k,
                      IF shouldRedact(obj.c[i].k) THEN Redacted
                      ELSE redactSensitiveData(obj.c[i].v))])
    [] OTHER -> obj

\* error.stack?.split('\n')
StackLines(error) ==
  List(<<Str("Error: " \o error.s), Str("    at <anonymous>")>>)

formatError(error) ==
  Map(<<Entry("error",
          Map(<<Entry("name", Str("Error")),
                Entry("message", Str(error.s)),
                Entry("stack", StackLines(error))>>
              \o (IF Truthy(Get(error, "cause"))
                    THEN <<Entry("cause", Get(error, "cause"))>>
                    ELSE <<>>)))>>)

format(message) ==
  IF message.t = "error" THEN formatError(message)
  ELSE IF message.t \in {"list", "map"} THEN redactSensitiveData(message)
  ELSE Map(<<Entry("message", Str(String(message)))>>)

\* a getTimestampDiff that leaves this.timestamp as it found it
getTimestampDiffKeepingTimestamp(ts) ==
  [diff |-> IF ts > 0 THEN now - ts ELSE 0, timestamp |-> ts]

\* getTimestampDiff with this.timestamp = ts: the difference it returns and
\* the value it leaves in this.timestamp
getTimestampDiff(ts) ==
  [diff |-> IF ts > 0 THEN now - ts ELSE 0, timestamp |-> now]

\* the record formatToJson builds before it is serialized
logEntry(level, message, params, ts) ==
  LET fixed == Spread(additionalFields,
                      <<Entry("timestamp", Str(toISOString(now))),
                        Entry("service", OrElse(env, Str("Nest"))),
                        Entry("level", Str(level)),
                        Entry("context", context),
                        Entry("data", format(message))>>)
      tagged == IF Len(ctxParams) > 0 \/ Len(params) > 0
                  THEN SetEntry(fixed, "tags", List(ctxParams \o params))
                  ELSE fixed
  IN Map(IF TimestampEnabled
           THEN SetEntry(tagged, "timestampDiff", Num(getTimestampDiff(ts).diff))
           ELSE tagged)

\* formatToJson with this.timestamp = ts: the text, and this.timestamp after
formatToJson(level, message, params, ts) ==
  [text |-> JSON_stringify(logEntry(level, message, params, ts),
                           config.prettyPrintJson),
   timestamp |-> IF TimestampEnabled THEN getTimestampDiff(ts).timestamp ELSE ts]

RECURSIVE Brackets(_)
\* ctx.filter(Boolean).map((ctx) => `[${ctx}]`).join('')
Brackets(ctx) ==
  IF ctx = <<>> THEN ""
  ELSE (IF Truthy(Head(ctx)) THEN "[" \o String(Head(ctx)) \o "]" ELSE "")
         \o Brackets(Tail(ctx))

ctxWithParams(params) ==
  clc("yellow", Brackets(<<context>> \o ctxParams \o params))

\* wrapParams with this.timestamp = ts
wrapParams(params, ts) ==
  [text |-> ctxWithParams(
              IF TimestampEnabled
                THEN Append(params,
                       Str("+" \o ToString(getTimestampDiff(ts).diff) \o "ms"))
                ELSE params),
   timestamp |-> IF TimestampEnabled THEN getTimestampDiff(ts).timestamp ELSE ts]

\* the ANSI styling of util.inspect with colors: true
Stylize(open, close, text) ==
  "\\x1b[" \o open \o "m" \o text \o "\\x1b[" \o close \o "m"

RECURSIVE Inspect(_, _, _)
RECURSIVE InspectEntries(_, _, _, _, _)
\* util.inspect of a value nested depth levels deep, with no depth limit and
\* with colors; multiline: one entry per line (compact: false)
Inspect(v, multiline, depth) ==
  CASE v.t = "string" -> Stylize("32", "39", "'" \o v.s \o "'")
    [] v.t = "number" -> Stylize("33", "39", ToString(v.n))
    [] v.t = "boolean" -> Stylize("33", "39", v.s)
    [] v.t = "null" -> Stylize("1", "22", "null")
    [] v.t = "undefined" -> Stylize("90", "39", "undefined")
    [] v.t = "ref" -> Stylize("36", "39", "[Circular *1]")
    [] v.t = "list" ->
         IF v.c = <<>> THEN "[]"
         ELSE "[" \o InspectEntries(v.c, FALSE, multiline, depth + 1, 1)
                \o (IF multiline THEN "\n" \o Indent(depth) ELSE " ") \o "]"
    [] v.t = "map" ->
         IF v.c = <<>> THEN "{}"
         ELSE "{" \o InspectEntries(v.c, TRUE, multiline, depth + 1, 1)
                \o (IF multiline THEN "\n" \o Indent(depth) ELSE " ") \o "}"
    \* an error: its stack, then its own enumerable properties
    [] OTHER ->
         "Error: " \o v.s \o "\n" \o Indent(depth) \o "    at <anonymous>"
           \o (IF v.c = <<>> THEN ""
               ELSE " {" \o InspectEntries(v.c, TRUE, multiline, depth + 1, 1)
                      \o (IF multiline THEN "\n" \o Indent(depth) ELSE " ")
                      \o "}")

InspectEntries(entries, keyed, multiline, depth, i) ==
  IF i > Len(entries) THEN ""
  ELSE (IF i > 1 THEN "," ELSE "")
         \o (IF multiline THEN "\n" \o Indent(depth) ELSE " ")
         \o (IF keyed THEN entries[i].k \o ": " ELSE "")
         \o Inspect(entries[i].v, multiline, depth)
         \o InspectEntries(entries, keyed, multiline, depth, i + 1)

\* a wrapMessage that hands the parameters of every message to wrapParams, and
\* so asks for a second timestamp diff when the message is a string
wrapMessageThroughWrapParams(message, params, colorFn, ts) ==
  LET wrapped == wrapParams(params, ts)
  IN IF message.t = "string"
       THEN [parts |-> <<wrapped.text,
                         IF TimestampEnabled
                           THEN message.s
                                  \o clc("yellow",
                                        " +" \o ToString(getTimestampDiff(
                                                           wrapped.timestamp).diff)
                                             \o "ms")
                           ELSE message.s>>,
             timestamp |-> wrapped.timestamp]
       ELSE [parts |-> <<wrapped.text,
                         Inspect(message, config.prettyPrintJson, 0)>>,
             timestamp |-> wrapped.timestamp]

\* wrapMessage with this.timestamp = ts: the two strings, and this.timestamp
\* after; colorFn "undefined" is the default parameter (text) => text
wrapMessage(message, params, colorFn, ts) ==
  IF message.t = "string"
    THEN LET coloredMessage ==
               clc(IF colorFn = "undefined" THEN "identity" ELSE colorFn,
                   message.s)
         IN [parts |-> <<ctxWithParams(params),
                         IF TimestampEnabled
                           THEN coloredMessage
                                  \o clc("yellow",
                                       " +" \o ToString(getTimestampDiff(ts).diff)
                                            \o "ms")
                           ELSE coloredMessage>>,
             timestamp |->
               IF TimestampEnabled THEN getTimestampDiff(ts).timestamp ELSE ts]
    ELSE LET wrapped == wrapParams(params, ts)
         IN [parts |-> <<wrapped.text,
                         (IF HasRef(message) THEN "<ref *1> " ELSE "")
                           \o Inspect(message, config.prettyPrintJson, 0)>>,
             timestamp |-> wrapped.timestamp]

prefix ==
  clc("green", "[" \o config.id \o "]") \o clc("gray", " " \o toISOString(now))

\* level.padStart(5)
padStart(level) ==
  CASE level = "LOG" -> "  LOG"
    [] level = "WARN" -> " WARN"
    [] level = "INFO" -> " INFO"
    [] OTHER -> level

\* pre(level, colorFn); colorFn "undefined" is the default parameter clc.gray
pre(level, colorFn) ==
  <<prefix,
    clc(IF colorFn = "undefined" THEN "gray" ELSE colorFn,
        clc("bold", padStart(level)))>>

\* one call of a console method
Write(consoleMethod, fmt, args, json) ==
  [sink |-> consoleMethod, format |-> fmt, args |-> args, json |-> json]

\* what a call of an entry point does: whether it ends normally, what it
\* writes, and this.timestamp after it
Outcome(result, writes, ts) ==
  [result |-> result, writes |-> writes, timestamp |-> ts]

logMessage(level, message, params, consoleMethod) ==
  LET processedParams ==
        [i \in 1..Len(params) |->
           IF params[i].t \in {"list", "map", "error"}
             THEN redactSensitiveData(params[i])
             ELSE params[i]]
  \* the recursion of redactSensitiveData on a cyclic parameter, or in
  \* format() on a cyclic message, does not end: the stack overflows
  IN IF \E i \in 1..Len(params) :
          params[i].t \in {"list", "map", "error"} /\ ReachesRef(params[i])
       THEN Outcome("RangeError", <<>>, timestamp)
     ELSE IF config.jsonFormat /\ message.t \in {"list", "map"}
               /\ ReachesRef(message)
       THEN Outcome("RangeError", <<>>, timestamp)
     \* JSON.stringify of a cause that refers to itself throws, after
     \* formatToJson has asked for the timestamp diff
     ELSE IF config.jsonFormat /\ message.t = "error"
               /\ HasRef(Get(message, "cause"))
       THEN Outcome("TypeError", <<>>,
                    IF TimestampEnabled
                      THEN getTimestampDiff(timestamp).timestamp
                      ELSE timestamp)
     ELSE IF config.jsonFormat
       THEN LET json == formatToJson(level, message, processedParams, timestamp)
            IN Outcome("returned",
                       <<Write(consoleMethod, "json", <<>>, json.text)>>,
                       json.timestamp)
     \* destructuring this.config.levelFormats[level] when it is undefined
     ELSE IF level \notin DOMAIN config.levelFormats
       THEN Outcome("TypeError", <<>>, timestamp)
     ELSE LET colors == config.levelFormats[level]
              wrapped == wrapMessage(message, processedParams,
                                     colors.messageColor, timestamp)
          IN Outcome("returned",
                     <<Write(consoleMethod, "text",
                             pre(level, colors.levelColor) \o wrapped.parts,
                             <<>>)>>,
                     wrapped.timestamp)

(***************************************************************************)
(* Construction.                                                           *)
(***************************************************************************)
\* what setOptions leaves in this.redactKeys
optionsRedactKeys(current, options) ==
  IF "redactKeys" \in DOMAIN options /\ LengthPositive(options.redactKeys)
    THEN NewSet(options.redactKeys.items)
    ELSE current

\* what setOptions leaves in this.logLevels
optionsLogLevels(current, options) ==
  IF "logLevels" \in DOMAIN options /\ LengthPositive(options.logLevels)
    THEN NewSet(options.logLevels.items)
    ELSE current

\* the options the constructor merges
mergedOptions(moduleOptions, options) ==
  Merge(Merge(defaultOptions, moduleOptions), options)

\* new Logger(ctx, options) with the module options given, at clock reading
\* 1.  this.timestamp is left undefined, and undefined > 0 is false as 0 > 0
\* is: the model writes 0 for it.
newLogger(ctx, options, moduleOptions) ==
  /\ context = ctx
  /\ config = mergedOptions(moduleOptions, options)
  /\ redactKeys = optionsRedactKeys(<<>>, mergedOptions(moduleOptions, options))
  /\ logLevels = optionsLogLevels(<<>>, mergedOptions(moduleOptions, options))
  /\ timestamp = 0
  /\ ctxParams = <<>>
  /\ additionalFields = <<>>
  /\ now = 1
  /\ out = <<>>
  /\ lastOp = [op |-> "constructor", kind |-> "config", message |-> Undefined,
               params |-> <<>>, result |-> "returned", ts |-> 0,
               value |-> "this"]
  /\ lastTick = 0

\* the construction when nothing is recorded for the claims
constructor(ctx, options, moduleOptions) ==
  /\ newLogger(ctx, options, moduleOptions)
  /\ probe = [v |-> Undefined, r |-> <<>>]

(***************************************************************************)
(* The configuration methods.                                              *)
(***************************************************************************)
\* a configuration method is called while the budget allows an operation
Spend ==
  /\ budget # 0
  /\ budget' = IF budget > 0 THEN budget - 1 ELSE budget

\* in a bounded run the call of an entry point is the last operation
SpendAll ==
  /\ budget # 0
  /\ budget' = IF budget > 0 THEN 0 ELSE budget

\* a configuration method that writes nothing and returns nothing
ConfiguredReturningNothing(op) ==
  /\ out' = <<>>
  /\ lastOp' = [op |-> op, kind |-> "config", message |-> Undefined,
                params |-> <<>>, result |-> "returned", ts |-> 0,
                value |-> "undefined"]
  /\ Spend
  /\ UNCHANGED <<env, now, probe>>

\* a configuration method returns this and writes nothing
Configured(op) ==
  /\ out' = <<>>
  /\ lastOp' = [op |-> op, kind |-> "config", message |-> Undefined,
                params |-> <<>>, result |-> "returned", ts |-> 0,
                value |-> "this"]
  /\ Spend
  /\ UNCHANGED <<env, now, probe>>

setContext(ctx) ==
  /\ context' = Str(ctx)
  /\ Configured("setContext")
  /\ UNCHANGED <<config, timestamp, ctxParams, additionalFields, redactKeys,
                 logLevels, lastTick>>

setOptions(options) ==
  /\ config' = Merge(config, options)
  /\ redactKeys' = optionsRedactKeys(redactKeys, options)
  /\ logLevels' = optionsLogLevels(logLevels, options)
  /\ Configured("setOptions")
  /\ UNCHANGED <<timestamp, ctxParams, additionalFields, context, lastTick>>

\* setOptions(undefined): the spread of undefined adds nothing to this.config
\* and options.redactKeys then throws a TypeError
setOptionsUndefined ==
  /\ config' = Merge(config, <<>>)
  /\ out' = <<>>
  /\ lastOp' = [op |-> "setOptions", kind |-> "config", message |-> Undefined,
                params |-> <<>>, result |-> "TypeError", ts |-> 0,
                value |-> "undefined"]
  /\ Spend
  /\ UNCHANGED <<timestamp, ctxParams, additionalFields, redactKeys,
                 logLevels, context, env, now, lastTick, probe>>

setLogLevels(levels) ==
  /\ logLevels' = NewSet(levels)
  /\ Configured("setLogLevels")
  /\ UNCHANGED <<config, timestamp, ctxParams, additionalFields, redactKeys,
                 context, lastTick>>

addLogLevel(level) ==
  /\ logLevels' = SetAdd(logLevels, level)
  /\ Configured("addLogLevel")
  /\ UNCHANGED <<config, timestamp, ctxParams, additionalFields, redactKeys,
                 context, lastTick>>

removeLogLevel(level) ==
  /\ logLevels' = SetDelete(logLevels, level)
  /\ Configured("removeLogLevel")
  /\ UNCHANGED <<config, timestamp, ctxParams, additionalFields, redactKeys,
                 context, lastTick>>

getLogLevels == logLevels

setCtxParams(ctx) ==
  /\ ctxParams' = ctx
  /\ Configured("setCtxParams")
  /\ UNCHANGED <<config, timestamp, additionalFields, redactKeys, logLevels,
                 context, lastTick>>

resetTimestamp ==
  /\ timestamp' = 0
  /\ lastTick' = 0
  /\ Configured("resetTimestamp")
  /\ UNCHANGED <<config, ctxParams, additionalFields, redactKeys, logLevels,
                 context>>

enableJsonFormat ==
  /\ config' = Merge(config, [jsonFormat |-> TRUE])
  /\ Configured("enableJsonFormat")
  /\ UNCHANGED <<timestamp, ctxParams, additionalFields, redactKeys, logLevels,
                 context, lastTick>>

disableJsonFormat ==
  /\ config' = Merge(config, [jsonFormat |-> FALSE])
  /\ Configured("disableJsonFormat")
  /\ UNCHANGED <<timestamp, ctxParams, additionalFields, redactKeys, logLevels,
                 context, lastTick>>

enablePrettyPrint ==
  /\ config' = Merge(config, [prettyPrintJson |-> TRUE])
  /\ Configured("enablePrettyPrint")
  /\ UNCHANGED <<timestamp, ctxParams, additionalFields, redactKeys, logLevels,
                 context, lastTick>>

disablePrettyPrint ==
  /\ config' = Merge(config, [prettyPrintJson |-> FALSE])
  /\ Configured("disablePrettyPrint")
  /\ UNCHANGED <<timestamp, ctxParams, additionalFields, redactKeys, logLevels,
                 context, lastTick>>

addField(key, value) ==
  /\ additionalFields' = SetEntry(additionalFields, key, value)
  /\ Configured("addField")
  /\ UNCHANGED <<config, timestamp, ctxParams, redactKeys, logLevels, context,
                 lastTick>>

\* the property name a value becomes when it is used as a key: obj[key]
ToPropertyKey(key) == String(key)

\* addField(fields), the call with one argument that the tests make: the
\* object is the key and the value is undefined
addFieldOf(fields) == addField(ToPropertyKey(fields), Undefined)

removeField(key) ==
  /\ additionalFields' = DeleteEntry(additionalFields, key)
  /\ Configured("removeField")
  /\ UNCHANGED <<config, timestamp, ctxParams, redactKeys, logLevels, context,
                 lastTick>>

setRedactKeys(keys) ==
  /\ redactKeys' = NewSet(keys)
  /\ Configured("setRedactKeys")
  /\ UNCHANGED <<config, timestamp, ctxParams, additionalFields, logLevels,
                 context, lastTick>>

addRedactKey(key) ==
  /\ redactKeys' = SetAdd(redactKeys, key)
  /\ Configured("addRedactKey")
  /\ UNCHANGED <<config, timestamp, ctxParams, additionalFields, logLevels,
                 context, lastTick>>

removeRedactKey(key) ==
  /\ redactKeys' = SetDelete(redactKeys, key)
  /\ Configured("removeRedactKey")
  /\ UNCHANGED <<config, timestamp, ctxParams, additionalFields, logLevels,
                 context, lastTick>>

getRedactKeys == redactKeys

(***************************************************************************)
(* The seven entry points.                                                 *)
(***************************************************************************)
\* a gate that reads the level of log() for every entry point
GateOfLog(name, outcome) ==
  IF Has(logLevels, "log") THEN outcome
  ELSE Outcome("skipped", <<>>, timestamp)

\* this.logLevels.has(name) && this.logMessage(...)
Gate(name, outcome) ==
  IF Has(logLevels, name) THEN outcome ELSE Outcome("skipped", <<>>, timestamp)

Called(op, message, optionalParams, outcome) ==
  LET done == outcome IN
  /\ SpendAll
  /\ out' = done.writes
  /\ timestamp' = done.timestamp
  /\ lastTick' = IF done.result = "returned" /\ TimestampEnabled
                   THEN now ELSE lastTick
  /\ lastOp' = [op |-> op, kind |-> "call", message |-> message,
                params |-> optionalParams, result |-> done.result,
                ts |-> timestamp,
                value |-> "undefined"]
  /\ UNCHANGED <<config, ctxParams, additionalFields, redactKeys, logLevels,
                 context, env, now, probe>>

log(message, optionalParams) ==
  Called("log", message, optionalParams,
         Gate("log", logMessage("LOG", message, optionalParams, "console.log")))

error(message, optionalParams) ==
  Called("error", message, optionalParams,
         Gate("error",
              logMessage("ERROR", message, optionalParams, "console.error")))

fatal(message, optionalParams) ==
  Called("fatal", message, optionalParams,
         Gate("fatal",
              logMessage("FATAL", message, optionalParams, "console.error")))

warn(message, optionalParams) ==
  Called("warn", message, optionalParams,
         Gate("warn",
              logMessage("WARN", message, optionalParams, "console.warn")))

info(message, optionalParams) ==
  Called("info", message, optionalParams,
         Gate("info",
              logMessage("INFO", message, optionalParams, "console.info")))

debug(message, optionalParams) ==
  Called("debug", message, optionalParams,
         Gate("debug",
              logMessage("DEBUG", message, optionalParams, "console.debug")))

verbose(message, optionalParams) ==
  Called("verbose", message, optionalParams,
         Gate("verbose",
              logMessage("VERBOSE", message, optionalParams, "console.log")))

\* the wall clock advances by a millisecond
Tick ==
  /\ now < MaxClock
  /\ now' = now + 1
  /\ out' = <<>>
  /\ lastOp' = [op |-> "tick", kind |-> "clock", message |-> Undefined,
                params |-> <<>>, result |-> "returned", ts |-> 0,
                value |-> "undefined"]
  /\ UNCHANGED <<config, timestamp, ctxParams, additionalFields, redactKeys,
                 logLevels, context, env, budget, lastTick, probe>>

(***************************************************************************)
(* The inputs of the operations.                                           *)
(***************************************************************************)
NoOptions == <<>>

\* the options of the README's customization example
CustomizationOptions ==
  [levelFormats |-> [INFO |-> Format("blue", "whiteBright")],
   redactKeys |-> SetOf(<<"secret", "apiKey">>)]

UserData == Map(<<Entry("user", Str("a")), Entry("password", Str("b"))>>)

UserList ==
  List(<<Map(<<Entry("password", Str("secret"))>>),
         Map(<<Entry("username", Str("user"))>>)>>)

\* one message of each kind
Messages ==
  {Str("hello"), Num(42), Bool(TRUE), Null, Undefined, UserData, UserList,
   Err("boom", <<>>)}

ParamLists == {<<>>, <<Str("tag1")>>}

Contexts == {Str("TestContext"), Undefined}

Environments == {Undefined, Str("EnvService")}

(***************************************************************************)
(* Spec: a logger is constructed and then used for up to MaxOps            *)
(* operations, any configuration methods and, last, any entry point.       *)
(***************************************************************************)
Init ==
  /\ env \in Environments
  /\ budget = MaxOps
  /\ \E ctx \in Contexts :
       \E options \in {NoOptions, CustomizationOptions,
                       [jsonFormat |-> TRUE, timestamp |-> TRUE]} :
         constructor(ctx, options, NoOptions)

Next ==
  \/ setContext("NewContext")
  \/ \E options \in {[jsonFormat |-> TRUE], [timestamp |-> TRUE],
                     [id |-> "MyService"],
                     [redactKeys |-> Array(<<"password">>)],
                     [logLevels |-> Array(<<"log", "error">>)]} :
       setOptions(options)
  \/ \E levels \in {<<>>, <<"log", "error">>, AllLevels} : setLogLevels(levels)
  \/ \E level \in {"error", "debug"} : addLogLevel(level)
  \/ \E level \in {"error", "debug"} : removeLogLevel(level)
  \/ setCtxParams(<<Str("param1"), Str("param2")>>)
  \/ resetTimestamp
  \/ enableJsonFormat
  \/ disableJsonFormat
  \/ enablePrettyPrint
  \/ disablePrettyPrint
  \/ addField("version", Str("1.0.0"))
  \/ removeField("version")
  \/ \E keys \in {<<>>, <<"password", "token">>} : setRedactKeys(keys)
  \/ addRedactKey("password")
  \/ removeRedactKey("password")
  \/ \E message \in Messages, optionalParams \in ParamLists :
       log(message, optionalParams)
  \/ \E message \in Messages, optionalParams \in ParamLists :
       error(message, optionalParams)
  \/ \E message \in Messages, optionalParams \in ParamLists :
       fatal(message, optionalParams)
  \/ \E message \in Messages, optionalParams \in ParamLists :
       warn(message, optionalParams)
  \/ \E message \in Messages, optionalParams \in ParamLists :
       info(message, optionalParams)
  \/ \E message \in Messages, optionalParams \in ParamLists :
       debug(message, optionalParams)
  \/ \E message \in Messages, optionalParams \in ParamLists :
       verbose(message, optionalParams)

Spec == Init /\ [][Next]_vars

(***************************************************************************)
(* The claims.                                                             *)
(***************************************************************************)
IsCall(op) == op.kind = "call"

\* C1: a call of an entry point whose level is not in logLevels writes to no
\* console method and leaves this.timestamp as it was, whatever the message,
\* the parameters and the configuration.
C1_DisabledLevelWritesNothing ==
  [][(IsCall(lastOp') /\ ~Has(logLevels, lastOp'.op))
       => (out' = <<>> /\ timestamp' = timestamp)]_vars

\* a structured message with a parameter is sent to a disabled level of a
\* logger in JSON format with timestamping enabled
C1_Witness ==
  /\ IsCall(lastOp)
  /\ ~Has(logLevels, lastOp.op)
  /\ lastOp.op = "debug"
  /\ Has(logLevels, "log")
  /\ lastOp.message.t = "map"
  /\ lastOp.params # <<>>
  /\ config.jsonFormat
  /\ TimestampEnabled
  /\ out = <<>>

\* the console method the claims fix for each entry point
SinkOf(op) ==
  CASE op \in {"error", "fatal"} -> "console.error"
    [] op = "warn" -> "console.warn"
    [] op = "info" -> "console.info"
    [] op = "debug" -> "console.debug"
    [] op \in {"log", "verbose"} -> "console.log"

\* the level an entry point hands to logMessage
LevelOf(op) ==
  CASE op = "log" -> "LOG"
    [] op = "error" -> "ERROR"
    [] op = "fatal" -> "FATAL"
    [] op = "warn" -> "WARN"
    [] op = "info" -> "INFO"
    [] op = "debug" -> "DEBUG"
    [] op = "verbose" -> "VERBOSE"

\* C2: every call of an entry point whose level is in logLevels makes exactly
\* one write, to the console method fixed for that level, for every kind of
\* message, in text and in JSON format, in every configuration.
C2_OneWriteToTheLevelsSink ==
  (IsCall(lastOp) /\ Has(logLevels, lastOp.op))
    => (Len(out) = 1 /\ out[1].sink = SinkOf(lastOp.op))

\* the same, for the calls that return: a call that writes, writes once and to
\* the console method of its level
C2_ReturnedCallsWriteOnce ==
  (IsCall(lastOp) /\ lastOp.result = "returned")
    => (Len(out) = 1 /\ out[1].sink = SinkOf(lastOp.op))

(***************************************************************************)
(* SpecRedaction: a logger whose redact keys are configured in every way   *)
(* the class offers, logging structured messages in text and JSON format.  *)
(***************************************************************************)
\* the values a message holds under a sensitive key
Secrets == {Str("b"), Num(7), Map(<<Entry("token", Str("t"))>>)}

SensitiveKeys == {"password", "PASSWORD", "apiKey"}

\* the complexObject of the test suite
ComplexObject ==
  Map(<<Entry("user",
          Map(<<Entry("profile",
                  Map(<<Entry("credentials",
                          Map(<<Entry("password", Str("secret")),
                                Entry("token", Str("token123"))>>))>>))>>))>>)

\* sensitive keys in other cases, two levels down and inside a list
DeepMessage ==
  Map(<<Entry("user",
          Map(<<Entry("PASSWORD", Map(<<Entry("token", Str("t"))>>)),
                Entry("name", Str("a"))>>)),
        Entry("items",
          List(<<Map(<<Entry("Password", Num(7))>>), Num(1), Null>>))>>)

StructuredMessages ==
  {Map(<<Entry("user", Str("a")), Entry(key, secret)>>) :
     key \in SensitiveKeys, secret \in Secrets}
    \cup {ComplexObject, DeepMessage, UserList, Map(<<>>), List(<<>>),
          Map(<<Entry("username", Str("user"))>>),
          Map(<<Entry("items", UserList), Entry("n", Num(1))>>),
          List(<<List(<<UserData>>), Str("x"), Num(1), Null, Bool(TRUE)>>)}

RedactionOptions ==
  {NoOptions, CustomizationOptions,
   [jsonFormat |-> TRUE, redactKeys |-> Array(<<"password">>)]}

InitRedaction ==
  /\ env = Undefined
  /\ budget = -1
  /\ \E options \in RedactionOptions :
       constructor(Str("TestContext"), options, NoOptions)

NextRedaction ==
  \/ \E options \in {[redactKeys |-> Array(<<"PASSWORD">>)],
                     [redactKeys |-> Array(<<>>)],
                     [redactKeys |-> SetOf(<<"token">>)]} :
       setOptions(options)
  \/ \E keys \in {<<>>, <<"password", "token">>} : setRedactKeys(keys)
  \/ \E key \in {"Password", "token"} : addRedactKey(key)
  \/ \E key \in {"password", "token"} : removeRedactKey(key)
  \/ enableJsonFormat
  \/ disableJsonFormat
  \/ \E message \in StructuredMessages : log(message, <<>>)

SpecRedaction == InitRedaction /\ [][NextRedaction]_vars

\* key matches one of the keys, whatever the case of the letters
Matches(keys, key) ==
  \E i \in 1..Len(keys) : toLowerCase(keys[i]) = toLowerCase(key)

RECURSIVE IsRedactionOf(_, _, _)
\* r is v with the value under every key that matches one of the keys, at any
\* depth and inside lists, replaced by the marker and nothing else changed
IsRedactionOf(keys, v, r) ==
  CASE v.t = "list" ->
         /\ r.t = "list"
         /\ Len(r.c) = Len(v.c)
         /\ \A i \in 1..Len(v.c) : IsRedactionOf(keys, v.c[i].v, r.c[i].v)
    [] v.t = "map" ->
         /\ r.t = "map"
         /\ Len(r.c) = Len(v.c)
         /\ \A i \in 1..Len(v.c) :
              /\ r.c[i].k = v.c[i].k
              /\ IF Matches(keys, v.c[i].k) THEN r.c[i].v = Str("[REDACTED]")
                 ELSE IsRedactionOf(keys, v.c[i].v, r.c[i].v)
    [] OTHER -> r = v

\* a call of an entry point that wrote one JSON record for a mapping or a list
IsJsonCallOfStructured ==
  /\ IsCall(lastOp)
  /\ lastOp.result = "returned"
  /\ config.jsonFormat
  /\ lastOp.message.t \in {"list", "map"}

\* the data of the record that was written
WrittenData == Get(JSON_parse(out[1].json), "data")

\* C3: in JSON format the data of the record of a mapping or list message is
\* the message redacted with the redact keys in force at the call, the keys
\* the redaction reads (this.config.redactKeys): the value under every key
\* that equals one of them ignoring case is "[REDACTED]", at any depth, inside
\* lists and whatever the value was, every other key keeps its redacted value,
\* keys, order and lengths are kept and primitives are unchanged.
C3_JsonDataIsTheRedactedMessage ==
  IsJsonCallOfStructured
    => IsRedactionOf(ArrayFrom(config.redactKeys), lastOp.message, WrittenData)

\* the record of DeepMessage, written with the redact key "password" in force
C3_Witness ==
  /\ IsJsonCallOfStructured
  /\ lastOp.message = DeepMessage
  /\ WrittenData =
       Map(<<Entry("user",
               Map(<<Entry("PASSWORD", Str("[REDACTED]")),
                     Entry("name", Str("a"))>>)),
             Entry("items",
               List(<<Map(<<Entry("Password", Str("[REDACTED]"))>>),
                      Num(1), Null>>))>>)

\* message with the value under every key that matches one of the keys
\* replaced by secret
RECURSIVE WithSecret(_, _, _)
WithSecret(keys, v, secret) ==
  CASE v.t = "list" ->
         List([i \in 1..Len(v.c) |-> WithSecret(keys, v.c[i].v, secret)])
    [] v.t = "map" ->
         Map([i \in 1..Len(v.c) |->
                Entry(v.c[i].k,
                      IF Matches(keys, v.c[i].k) THEN secret
                      ELSE WithSecret(keys, v.c[i].v, secret))])
    [] OTHER -> v

\* C4: in text format two calls that differ only in the values a mapping or
\* list message stores under keys matching a redact key write the same output:
\* whatever is put in place of those values, the call writes what it wrote.
C4_TextOutputHidesRedactedValues ==
  [][(/\ IsCall(lastOp')
      /\ lastOp'.result = "returned"
      /\ ~config.jsonFormat
      /\ lastOp'.message.t \in {"list", "map"})
       => \A secret \in Secrets :
            logMessage(LevelOf(lastOp'.op),
                       WithSecret(ArrayFrom(config.redactKeys),
                                  lastOp'.message, secret),
                       lastOp'.params, SinkOf(lastOp'.op)).writes = out']_vars

\* the keys a message may hold
ProbeKeys ==
  {"password", "Password", "PASSWORD", "apiKey", "secret", "token", "user"}

\* C5: at every call of an entry point the keys the redaction matches are the
\* keys getRedactKeys() returns: a key is redacted exactly when it equals,
\* ignoring case, one of the keys of getRedactKeys(), however the redact keys
\* were configured (options with a list or a Set, setOptions, setRedactKeys,
\* addRedactKey, removeRedactKey).
C5_RedactionMatchesGetRedactKeys ==
  IsCall(lastOp)
    => \A key \in ProbeKeys : shouldRedact(key) <=> Matches(getRedactKeys, key)

(***************************************************************************)
(* SpecRedact: redactSensitiveData applied again and again to a value,     *)
(* for every value of ProbeValues and every redact key set of KeySets.     *)
(***************************************************************************)
MaxRedactions == 2

Primitives == {Str("b"), Num(7), Null, Bool(TRUE), Str("[REDACTED]")}

\* the values one level above the values of a set
Wrap(values) ==
  {Map(<<Entry(key, v)>>) :
     key \in {"password", "PASSWORD", "token", "user"}, v \in values}
    \cup {List(<<v, Str("x")>>) : v \in values}
    \cup {Map(<<Entry("user", v), Entry("password", Str("b"))>>) : v \in values}

\* primitives, lists and mappings, nested up to three levels
ProbeValues ==
  Primitives \cup Wrap(Primitives) \cup Wrap(Wrap(Primitives))
    \cup Wrap(Wrap(Wrap(Primitives)))

KeySets == {<<>>, <<"password">>, <<"PASSWORD", "token">>, <<"user">>}

InitRedact ==
  /\ env = Undefined
  /\ budget = -1
  /\ context = Str("TestContext")
  /\ \E keys \in KeySets :
       /\ config = mergedOptions(NoOptions, [redactKeys |-> Array(keys)])
       /\ redactKeys = optionsRedactKeys(<<>>, config)
  /\ logLevels = optionsLogLevels(<<>>, config)
  /\ timestamp = 0
  /\ ctxParams = <<>>
  /\ additionalFields = <<>>
  /\ now = 1
  /\ out = <<>>
  /\ lastOp = [op |-> "constructor", kind |-> "config", message |-> Undefined,
               params |-> <<>>, result |-> "returned", ts |-> 0,
               value |-> "this"]
  /\ lastTick = 0
  /\ \E v \in ProbeValues : probe = [v |-> v, r |-> <<>>]

\* redactSensitiveData is applied to the value, or to what it returned last
Redact ==
  /\ Len(probe.r) < MaxRedactions
  /\ probe' = [probe EXCEPT
                 !.r = Append(@, redactSensitiveData(
                                   IF probe.r = <<>> THEN probe.v
                                   ELSE probe.r[Len(probe.r)]))]
  /\ UNCHANGED <<config, timestamp, ctxParams, additionalFields, redactKeys,
                 logLevels, context, env, now, out, lastOp, budget, lastTick>>

NextRedact == Redact

SpecRedact == InitRedact /\ [][NextRedact]_vars

\* C6: redaction is idempotent: for every value (primitives, lists, mappings,
\* nested) and every redact key set, redacting what a redaction returned
\* returns it unchanged.
C6_RedactionIsIdempotent ==
  \A i \in 2..Len(probe.r) : probe.r[i] = probe.r[i - 1]

\* a nested value holding a list and a sensitive key was redacted twice, and
\* the first redaction changed it
C6_Witness ==
  /\ Len(probe.r) = 2
  /\ probe.v = Map(<<Entry("user", List(<<Map(<<Entry("PASSWORD", Num(7))>>),
                                          Str("x")>>)),
                     Entry("password", Str("b"))>>)
  /\ probe.r[1] = Map(<<Entry("user",
                          List(<<Map(<<Entry("PASSWORD", Str("[REDACTED]"))>>),
                                 Str("x")>>)),
                        Entry("password", Str("[REDACTED]"))>>)

(***************************************************************************)
(* SpecTimestamp: a logger whose timestamping is switched on and off,      *)
(* logging in text and JSON format while the clock advances.               *)
(***************************************************************************)
InitTimestamp ==
  /\ env = Undefined
  /\ budget = -1
  /\ \E options \in {NoOptions, [timestamp |-> TRUE],
                     [timestamp |-> TRUE, jsonFormat |-> TRUE]} :
       constructor(Str("TestContext"), options, NoOptions)

NextTimestamp ==
  \/ Tick
  \/ \E options \in {[timestamp |-> TRUE], [timestamp |-> FALSE]} :
       setOptions(options)
  \/ resetTimestamp
  \/ enableJsonFormat
  \/ disableJsonFormat
  \/ \E message \in {Str("hello"), UserData} : log(message, <<>>)
  \/ \E message \in {Str("hello"), UserData} : error(message, <<Str("tag1")>>)

SpecTimestamp == InitTimestamp /\ [][NextTimestamp]_vars

\* part occurs in text
Contains(text, part) ==
  \E i \in 1..(Len(text) - Len(part) + 1) :
    SubSeq(text, i, i + Len(part) - 1) = part

\* the one record of writes reports a timestamp diff of d: as timestampDiff in
\* a JSON record, as +<d>ms in a text record
ReportsDiff(writes, d) ==
  /\ Len(writes) = 1
  /\ IF writes[1].format = "json"
       THEN Get(JSON_parse(writes[1].json), "timestampDiff") = Num(d)
       ELSE \E i \in 3..4 :
              Contains(writes[1].args[i], "+" \o ToString(d) \o "ms")

FieldInputs ==
  {<<"version", Str("1.0.0")>>, <<"environment", Undefined>>,
   <<"tags", Str("x")>>}

InitJson ==
  /\ env \in Environments
  /\ budget = -1
  /\ \E ctx \in Contexts :
       constructor(ctx, [jsonFormat |-> TRUE], NoOptions)

NextJson ==
  \/ \E options \in {[id |-> "MyService"], [timestamp |-> TRUE]} :
       setOptions(options)
  \/ \E ctx \in {<<>>, <<Str("param1")>>} : setCtxParams(ctx)
  \/ enablePrettyPrint
  \/ disablePrettyPrint
  \/ \E field \in FieldInputs : addField(field[1], field[2])
  \/ \E key \in {"version", "tags"} : removeField(key)
  \/ \E message \in {Str("hello"), UserData}, optionalParams \in ParamLists :
       log(message, optionalParams)

SpecJson == InitJson /\ [][NextJson]_vars

\* a call of an entry point that wrote one JSON record
IsJsonCall ==
  /\ IsCall(lastOp)
  /\ lastOp.result = "returned"
  /\ Len(out) = 1
  /\ out[1].format = "json"

\* the record that was written, decoded
WrittenRecord == JSON_parse(out[1].json)

\* no key occurs twice in the mapping
KeysAreDistinct(v) ==
  \A i, j \in 1..Len(v.c) : v.c[i].k = v.c[j].k => i = j

\* the keys of the tags and of the timestamp diff, each present exactly when
\* the call has tags or timestamping is enabled
OptionalKeys(params) ==
  (IF Len(ctxParams) + Len(params) > 0 THEN {"tags"} ELSE {})
    \cup (IF TimestampEnabled THEN {"timestampDiff"} ELSE {})

\* the compact and the pretty-printed rendering of a record hold the same
\* keys and values and differ in whitespace only, and the call wrote the one
\* prettyPrintJson selects
RenderingsAgree(entry, written) ==
  LET compact == JSON_stringify(entry, FALSE)
      pretty == JSON_stringify(entry, TRUE)
  IN /\ written = IF config.prettyPrintJson THEN pretty ELSE compact
     /\ StripWhitespace(pretty) = compact
     /\ pretty # compact
     /\ JSON_parse(pretty) = JSON_parse(compact)

\* the record the last call of an entry point handed to JSON.stringify
CalledEntry ==
  logEntry(LevelOf(lastOp.op), lastOp.message, lastOp.params, lastOp.ts)

ReservedKeys ==
  {"timestamp", "service", "level", "context", "data", "tags", "timestampDiff"}

\* C9: an additional field named as one of the reserved keys never shadows
\* the value the renderer computes: in every JSON record such a key is absent
\* or carries the computed value, never the value given to addField.
C9_ReservedKeysAreNotShadowed ==
  IsJsonCall
    => \A key \in ReservedKeys \cap Keys(Map(additionalFields)) :
         \/ key \notin Keys(WrittenRecord)
         \/ Get(WrittenRecord, key) # Get(Map(additionalFields), key)

\* C10: the service of every JSON record is the service id the logger is
\* configured with, the id of its options, which the text prefix shows.
C10_ServiceIsTheConfiguredId ==
  IsJsonCall => Get(WrittenRecord, "service") = Str(config.id)

(***************************************************************************)
(* SpecLevels: the active levels are set, added and removed in any order,  *)
(* and entry points are called in between.                                 *)
(***************************************************************************)
LevelLists == {<<>>, <<"log", "error", "log">>, <<"debug", "debug">>}

LevelInputs == {"log", "error", "debug"}

InitLevels ==
  /\ env = Undefined
  /\ budget = -1
  /\ \E options \in {NoOptions, [logLevels |-> Array(<<"error", "error">>)]} :
       constructor(Str("TestContext"), options, NoOptions)

NextLevels ==
  \/ \E levels \in LevelLists : setLogLevels(levels)
  \/ \E level \in LevelInputs : addLogLevel(level)
  \/ \E level \in LevelInputs : removeLogLevel(level)
  \/ log(Str("hello"), <<>>)
  \/ error(Str("hello"), <<>>)
  \/ debug(Str("hello"), <<>>)

SpecLevels == InitLevels /\ [][NextLevels]_vars

\* the members of a list
Members(list) == {list[i] : i \in 1..Len(list)}

\* no member occurs twice in the list
NoDuplicates(list) == \A i, j \in 1..Len(list) : list[i] = list[j] => i = j

\* C11: the active levels behave as a set: setLogLevels(L) leaves the distinct
\* elements of L, addLogLevel(x) adds x, removeLogLevel(x) removes x,
\* getLogLevels() returns the members without duplicates, and an entry point
\* runs exactly when its level is a member of what getLogLevels() returns.
C11_ActiveLevelsAreASet ==
  [][/\ NoDuplicates(getLogLevels')
     /\ \A levels \in LevelLists :
          setLogLevels(levels) => Members(getLogLevels') = Members(levels)
     /\ \A level \in LevelInputs :
          /\ addLogLevel(level)
               => Members(getLogLevels') = Members(getLogLevels) \cup {level}
          /\ removeLogLevel(level)
               => Members(getLogLevels') = Members(getLogLevels) \ {level}
     /\ IsCall(lastOp')
          => /\ getLogLevels' = getLogLevels
             /\ (lastOp'.result = "skipped")
                  <=> (lastOp'.op \notin Members(getLogLevels))]_vars

\* a level that was given twice to setLogLevels is added once more, and its
\* entry point writes
C11_Witness ==
  /\ IsCall(lastOp)
  /\ lastOp.op = "debug"
  /\ getLogLevels = <<"debug", "error">>
  /\ Len(out) = 1

(***************************************************************************)
(* SpecFields: additional fields are added, in the two forms of the call,  *)
(* and removed, and JSON records are written in between.                   *)
(***************************************************************************)
\* addField('version', '1.0.0') of the README, a later value and one more
FieldPairs ==
  {<<"version", Str("1.0.0")>>, <<"version", Str("2.0.0")>>,
   <<"environment", Str("test")>>}

\* addField({ field1: 'value1' }) and addField({ field2: 'value2' })
FieldObjects ==
  {Map(<<Entry("field1", Str("value1"))>>),
   Map(<<Entry("field2", Str("value2"))>>)}

FieldKeys == {"version", "field1"}

InitFields ==
  /\ env = Undefined
  /\ budget = -1
  /\ \E ctx \in Contexts : constructor(ctx, [jsonFormat |-> TRUE], NoOptions)

NextFields ==
  \/ \E field \in FieldPairs : addField(field[1], field[2])
  \/ \E fields \in FieldObjects : addFieldOf(fields)
  \/ \E key \in FieldKeys : removeField(key)
  \/ enablePrettyPrint
  \/ disablePrettyPrint
  \/ \E message \in {Str("hello"), UserData} : log(message, <<>>)
  \/ \E message \in {Str("hello"), UserData} : warn(message, <<Str("tag1")>>)

SpecFields == InitFields /\ [][NextFields]_vars

\* the additional fields of the logger, as pairs of key and value
Fields == {<<additionalFields[i].k, additionalFields[i].v>> :
             i \in 1..Len(additionalFields)}

\* the pairs with key set to value
Put(pairs, key, value) ==
  {pair \in pairs : pair[1] # key} \cup {<<key, value>>}

\* the pairs without key
Without(pairs, key) == {pair \in pairs : pair[1] # key}

RECURSIVE PutAll(_, _)
\* the pairs with every entry of a mapping set, in order
PutAll(pairs, entries) ==
  IF entries = <<>> THEN pairs
  ELSE PutAll(Put(pairs, Head(entries).k, Head(entries).v), Tail(entries))

\* the fields a record carries besides those the renderer computes
CarriedFields(record) ==
  {<<key, Get(record, key)>> :
     key \in Keys(record) \ {"timestamp", "service", "level", "context",
                             "data", "tags", "timestampDiff"}}

\* C12: after any sequence of addField and removeField calls every JSON
\* record carries exactly the fields added and not removed since, each under
\* its key with its last value: addField(key, value) and addField({ key:
\* value }) set the field, removeField(key) removes it, and a record carries
\* the fields the logger holds.
C12_RecordsCarryTheAddedFields ==
  /\ [](IsJsonCall => CarriedFields(WrittenRecord) = Fields)
  /\ [][/\ \A field \in FieldPairs :
             addField(field[1], field[2])
               => Fields' = Put(Fields, field[1], field[2])
        /\ \A fields \in FieldObjects :
             addFieldOf(fields) => Fields' = PutAll(Fields, fields.c)
        /\ \A key \in FieldKeys :
             removeField(key) => Fields' = Without(Fields, key)]_vars

\* the same for the call with a key and a value alone
C12_TwoArgumentFormSetsTheField ==
  [][/\ \A field \in FieldPairs :
          addField(field[1], field[2])
            => Fields' = Put(Fields, field[1], field[2])
     /\ \A key \in FieldKeys :
          removeField(key) => Fields' = Without(Fields, key)]_vars

(***************************************************************************)
(* SpecTags: entry points are called with string and primitive parameters, *)
(* with and without persistent ctxParams, in text and JSON format.         *)
(***************************************************************************)
\* log('hi', 'tag1') of Scenario D, and parameters that are numbers, an
\* empty string and a boolean
TagLists ==
  {<<>>, <<Str("tag1")>>, <<Str("tag1"), Num(0), Str("tag2")>>,
   <<Num(42), Str("tag1")>>, <<Str(""), Bool(FALSE)>>}

InitTags ==
  /\ env = Undefined
  /\ budget = -1
  /\ \E options \in {NoOptions, [jsonFormat |-> TRUE]} :
       constructor(Str("TestContext"), options, NoOptions)

NextTags ==
  \/ \E ctx \in {<<>>, <<Str("env:test")>>, <<Str("param1"), Str("param2")>>} :
       setCtxParams(ctx)
  \/ enableJsonFormat
  \/ disableJsonFormat
  \/ \E message \in {Str("hi"), UserData}, optionalParams \in TagLists :
       log(message, optionalParams)
  \/ \E message \in {Str("hi"), UserData}, optionalParams \in TagLists :
       info(message, optionalParams)

SpecTags == InitTags /\ [][NextTags]_vars

RECURSIVE Bracketed(_)
\* one bracketed entry per element, in order
Bracketed(elements) ==
  IF elements = <<>> THEN ""
  ELSE "[" \o String(Head(elements)) \o "]" \o Bracketed(Tail(elements))

\* the record of the last call shows the tag sequence tags: in text format
\* the context segment is [context] and one bracketed entry per tag, in JSON
\* format tags is the sequence
ShowsTags(tags) ==
  IF out[1].format = "json"
    THEN tags # <<>> => Get(WrittenRecord, "tags") = List(tags)
    ELSE out[1].args[3] = clc("yellow", "[" \o context.s \o "]" \o Bracketed(tags))

\* C13: the tag sequence of every record is ctxParams in their order followed
\* by the parameters of the call in their order, no string or primitive
\* parameter dropped or moved: in text format the context segment is [context]
\* followed by one bracketed entry per element, in JSON format tags is the
\* sequence.
C13_TagsAreCtxParamsThenParameters ==
  (IsCall(lastOp) /\ lastOp.result = "returned")
    => ShowsTags(ctxParams \o lastOp.params)

\* the same for the calls whose parameters are all truthy
C13_TruthyParametersAreKept ==
  (/\ IsCall(lastOp)
   /\ lastOp.result = "returned"
   /\ \A i \in 1..Len(lastOp.params) : Truthy(lastOp.params[i]))
    => ShowsTags(ctxParams \o lastOp.params)

(***************************************************************************)
(* SpecOptions: a logger is constructed with caller options and module     *)
(* options, and setOptions is called with further options.                 *)
(***************************************************************************)
InfoOnly == [INFO |-> Format("blue", "whiteBright")]

CallerOptions ==
  {NoOptions, CustomizationOptions,
   [id |-> "MyService", jsonFormat |-> TRUE],
   [logLevels |-> Array(<<"error">>), redactKeys |-> Array(<<"password">>)],
   [logLevels |-> Array(<<>>), timestamp |-> TRUE]}

\* moduleOptions.loggerOptions of LoggerModule.forRoot
ModuleOptions ==
  {NoOptions,
   [id |-> "ModuleService", prettyPrintJson |-> TRUE,
    logLevels |-> Array(<<"log", "error">>)],
   [redactKeys |-> Array(<<"token">>), jsonFormat |-> TRUE]}

LaterOptions ==
  {[jsonFormat |-> FALSE], [id |-> "Other"], [timestamp |-> FALSE],
   [logLevels |-> Array(<<"warn">>)], [logLevels |-> Array(<<>>)],
   [redactKeys |-> Array(<<>>)], [levelFormats |-> InfoOnly]}

InitOptions ==
  /\ env = Undefined
  /\ budget = -1
  /\ \E options \in CallerOptions, moduleOptions \in ModuleOptions :
       /\ newLogger(Str("TestContext"), options, moduleOptions)
       /\ probe = [v |-> Undefined, r |-> <<>>, options |-> options,
                   moduleOptions |-> moduleOptions]

NextOptions ==
  \/ \E options \in LaterOptions : setOptions(options)
  \/ log(UserData, <<>>)
  \/ warn(Str("hello"), <<>>)

SpecOptions == InitOptions /\ [][NextOptions]_vars

OptionNames ==
  {"id", "jsonFormat", "prettyPrintJson", "timestamp", "levelFormats",
   "redactKeys", "logLevels"}

\* the value options give to the option name, if any: a list of levels or of
\* keys counts by its members
Supplied(options, name) ==
  IF name \notin DOMAIN options THEN {}
  ELSE IF name \in {"redactKeys", "logLevels"}
    THEN {Members(options[name].items)}
  ELSE {options[name]}

\* the value the logger works with: the levels its entry points test, the
\* keys its redaction matches, and for the other options the value of
\* this.config
Effective(name) ==
  IF name = "logLevels" THEN {Members(getLogLevels)}
  ELSE IF name = "redactKeys" THEN {Members(ArrayFrom(config.redactKeys))}
  ELSE IF name \in DOMAIN config THEN {config[name]}
  ELSE {}

\* the first of the three that gives a value
Prefer(first, second, third) ==
  IF first # {} THEN first ELSE IF second # {} THEN second ELSE third

\* C14: at construction every option has the value the caller gave, else the
\* value of the module options, else the built-in default; a later setOptions
\* gives every option it supplies the value supplied and leaves every other
\* option as it was.
C14_OptionPrecedence ==
  /\ [](lastOp.op = "constructor"
          => \A name \in OptionNames :
               Effective(name) = Prefer(Supplied(probe.options, name),
                                        Supplied(probe.moduleOptions, name),
                                        Supplied(defaultOptions, name)))
  /\ [][\A options \in LaterOptions :
          setOptions(options)
            => \A name \in OptionNames :
                 Effective(name)' = Prefer(Supplied(options, name),
                                           Effective(name), {})]_vars

\* the same for the options setOptions is given other than an empty list of
\* levels
C14_PrecedenceButForEmptyLevels ==
  /\ [](lastOp.op = "constructor"
          => \A name \in OptionNames :
               Effective(name) = Prefer(Supplied(probe.options, name),
                                        Supplied(probe.moduleOptions, name),
                                        Supplied(defaultOptions, name)))
  /\ [][\A options \in LaterOptions \ {[logLevels |-> Array(<<>>)]} :
          setOptions(options)
            => \A name \in OptionNames :
                 Effective(name)' = Prefer(Supplied(options, name),
                                           Effective(name), {})]_vars

(***************************************************************************)
(* SpecEmpty: empty lists of levels and of redact keys are given to the    *)
(* constructor, setOptions, setLogLevels and setRedactKeys, levels and     *)
(* keys are added again, and JSON records are written in between.          *)
(***************************************************************************)
EmptyLevels == [logLevels |-> Array(<<>>)]

EmptyRedactKeys == [redactKeys |-> Array(<<>>)]

InitEmpty ==
  /\ env = Undefined
  /\ budget = -1
  /\ \E options \in {[jsonFormat |-> TRUE],
                     [jsonFormat |-> TRUE, logLevels |-> Array(<<>>)],
                     [jsonFormat |-> TRUE, redactKeys |-> Array(<<>>)],
                     [jsonFormat |-> TRUE,
                      redactKeys |-> Array(<<"password">>)]} :
       /\ newLogger(Str("TestContext"), options, NoOptions)
       /\ probe = [v |-> Undefined, r |-> <<>>, options |-> options,
                   moduleOptions |-> NoOptions]

NextEmpty ==
  \/ \E options \in {EmptyLevels, EmptyRedactKeys,
                     [redactKeys |-> Array(<<"password">>)]} :
       setOptions(options)
  \/ setLogLevels(<<>>)
  \/ addLogLevel("log")
  \/ setRedactKeys(<<>>)
  \/ addRedactKey("password")
  \/ log(UserData, <<>>)
  \/ error(UserData, <<>>)

SpecEmpty == InitEmpty /\ [][NextEmpty]_vars

\* no level is active: no entry point would run
NothingEmitted == \A level \in Members(AllLevels) : ~Has(logLevels, level)

\* no key is redacted
NothingRedacted == \A key \in ProbeKeys : ~shouldRedact(key)

\* C15: an empty list of levels or of redact keys is valid wherever it is
\* accepted: once an empty list of levels is given to the constructor, to
\* setOptions or to setLogLevels no level is active and no entry point writes
\* until a level is added, once an empty list of redact keys is given to the
\* constructor, to setOptions or to setRedactKeys no key is redacted until a
\* key is added, and the operation returns.
C15_EmptyListsAreValid ==
  /\ [](/\ (lastOp.op = "constructor"
              /\ Supplied(probe.options, "logLevels") = {{}})
             => NothingEmitted
        /\ (lastOp.op = "constructor"
              /\ Supplied(probe.options, "redactKeys") = {{}})
             => NothingRedacted
        /\ (IsCall(lastOp) /\ NothingEmitted) => out = <<>>
        /\ (IsJsonCallOfStructured /\ NothingRedacted)
             => WrittenData = lastOp.message)
  /\ [][/\ (setOptions(EmptyLevels) \/ setLogLevels(<<>>))
             => (NothingEmitted' /\ lastOp'.result = "returned")
        /\ (setOptions(EmptyRedactKeys) \/ setRedactKeys(<<>>))
             => (NothingRedacted' /\ lastOp'.result = "returned")]_vars

\* the same without setOptions for the levels and setRedactKeys for the keys
C15_EmptyListsThatAreHonoured ==
  /\ [](/\ (lastOp.op = "constructor"
              /\ Supplied(probe.options, "logLevels") = {{}})
             => NothingEmitted
        /\ (lastOp.op = "constructor"
              /\ Supplied(probe.options, "redactKeys") = {{}})
             => NothingRedacted
        /\ (IsCall(lastOp) /\ NothingEmitted) => out = <<>>
        /\ (IsJsonCallOfStructured /\ NothingRedacted)
             => WrittenData = lastOp.message)
  /\ [][/\ setLogLevels(<<>>)
             => (NothingEmitted' /\ lastOp'.result = "returned")
        /\ setOptions(EmptyRedactKeys)
             => (NothingRedacted' /\ lastOp'.result = "returned")]_vars

(***************************************************************************)
(* SpecMutators: every configuration method is called with absent, empty   *)
(* and unknown input on a logger constructed with the defaults, and        *)
(* entry points are called in between.                                     *)
(***************************************************************************)
InitMutators ==
  /\ env = Undefined
  /\ budget = -1
  /\ constructor(Str("TestContext"), NoOptions, NoOptions)

NextMutators ==
  \/ setContext("")
  \/ \E options \in {NoOptions, EmptyLevels, [levelFormats |-> InfoOnly]} :
       setOptions(options)
  \/ setOptionsUndefined
  \/ setLogLevels(<<>>)
  \/ addLogLevel("trace")
  \/ addLogLevel("log")
  \/ removeLogLevel("trace")
  \/ setCtxParams(<<>>)
  \/ resetTimestamp
  \/ enableJsonFormat
  \/ disableJsonFormat
  \/ enablePrettyPrint
  \/ disablePrettyPrint
  \/ addField("", Undefined)
  \/ removeField("version")
  \/ setRedactKeys(<<>>)
  \/ addRedactKey("")
  \/ removeRedactKey("password")
  \/ log(Str("hello"), <<>>)
  \/ info(UserData, <<>>)

SpecMutators == InitMutators /\ [][NextMutators]_vars

\* C16: no configuration method throws, whatever it is given, and after any
\* sequence of them a call of an entry point whose level is active returns and
\* writes its record.
C16_MutatorsNeverThrowNorBreakCalls ==
  /\ lastOp.kind = "config" => lastOp.result = "returned"
  /\ (IsCall(lastOp) /\ Has(logLevels, lastOp.op))
       => (lastOp.result = "returned" /\ Len(out) = 1)

\* the same when setOptions is given options and these leave the level formats
\* alone
C16_MutatorsButSetOptions ==
  /\ (lastOp.kind = "config" /\ lastOp.op # "setOptions")
       => lastOp.result = "returned"
  /\ (IsCall(lastOp) /\ Has(logLevels, lastOp.op)
        /\ config.levelFormats = levelFormats)
       => (lastOp.result = "returned" /\ Len(out) = 1)

(***************************************************************************)
(* A level without an entry in levelFormats, under Spec.                   *)
(***************************************************************************)
\* a call of an entry point, in text format, whose level is active and has no
\* entry in this.config.levelFormats
IsTextCallWithoutFormat ==
  /\ IsCall(lastOp)
  /\ Has(logLevels, lastOp.op)
  /\ ~config.jsonFormat
  /\ LevelOf(lastOp.op) \notin DOMAIN config.levelFormats

\* C17: a call in text format on an active level that has no entry in
\* levelFormats returns and writes exactly one text record, whose level tag
\* carries no colour and whose message, when it is a string, is written as it
\* is.
C17_LevelWithoutFormatIsUncolored ==
  IsTextCallWithoutFormat
    => /\ lastOp.result = "returned"
       /\ Len(out) = 1
       /\ out[1].format = "text"
       /\ out[1].args[2] \in {padStart(LevelOf(lastOp.op)),
                              clc("bold", padStart(LevelOf(lastOp.op)))}
       /\ (lastOp.message.t = "string" /\ ~TimestampEnabled)
            => out[1].args[4] = lastOp.message.s

\* what the code does for such a call
C17_LevelWithoutFormatThrows ==
  IsTextCallWithoutFormat => (lastOp.result = "TypeError" /\ out = <<>>)

(***************************************************************************)
(* SpecCyclic: messages and parameters that refer back to themselves, in   *)
(* text and JSON format, with and without a redact key on the cycle.       *)
(***************************************************************************)
\* const o = { a: 1 }; o.self = o
SelfMap == Map(<<Entry("a", Num(1)), Entry("self", Ref)>>)

\* const l = [1]; l.push(l)
SelfList == List(<<Num(1), Ref>>)

\* const p = { child: {} }; p.child.parent = p
ParentMap == Map(<<Entry("child", Map(<<Entry("parent", Ref)>>))>>)

CyclicValues == {SelfMap, SelfList, ParentMap}

InitCyclic ==
  /\ env = Undefined
  /\ budget = -1
  /\ \E options \in {NoOptions, [jsonFormat |-> TRUE]} :
       constructor(Str("TestContext"), options, NoOptions)

NextCyclic ==
  \/ enableJsonFormat
  \/ disableJsonFormat
  \/ enablePrettyPrint
  \/ disablePrettyPrint
  \/ \E keys \in {<<"self">>, <<"token">>} :
       setOptions([redactKeys |-> Array(keys)])
  \/ \E message \in CyclicValues \cup {Str("hello")},
        optionalParams \in {<<>>} \cup {<<v>> : v \in CyclicValues} :
       log(message, optionalParams)
  \/ \E message \in CyclicValues : error(message, <<Str("tag1")>>)

SpecCyclic == InitCyclic /\ [][NextCyclic]_vars

\* a call of an entry point on an active level with a cyclic message or
\* parameter
IsCallWithCycle ==
  /\ IsCall(lastOp)
  /\ Has(logLevels, lastOp.op)
  /\ \/ HasRef(lastOp.message)
     \/ \E i \in 1..Len(lastOp.params) : HasRef(lastOp.params[i])

\* C18: a call whose message or parameter is a cyclic mapping or list ends
\* without throwing, in JSON and in text format.
C18_CyclicValuesDoNotThrow ==
  IsCallWithCycle => lastOp.result = "returned"

\* the calls with a cycle that return: those in text format whose parameters
\* are not cyclic, and those whose cycles all pass through a redacted key
C18_CyclesThatAreSurvived ==
  IsCallWithCycle
    => (lastOp.result = "returned"
          <=> /\ \A i \in 1..Len(lastOp.params) : ~ReachesRef(lastOp.params[i])
              /\ ~config.jsonFormat \/ ~ReachesRef(lastOp.message))

(***************************************************************************)
(* SpecError: errors with and without a cause are logged in JSON and text  *)
(* format.                                                                 *)
(***************************************************************************)
\* new Error('boom', { cause }), for causes that are truthy and causes that
\* are not
Causes == {Str("root"), Map(<<Entry("code", Num(7))>>), Num(0), Str("")}

ErrorMessages ==
  {Err("boom", <<>>)} \cup {Err("boom", <<Entry("cause", c)>>) : c \in Causes}

InitError ==
  /\ env = Undefined
  /\ budget = -1
  /\ \E options \in {[jsonFormat |-> TRUE],
                     [jsonFormat |-> TRUE,
                      redactKeys |-> Array(<<"cause">>)]} :
       constructor(Str("TestContext"), options, NoOptions)

NextError ==
  \/ enableJsonFormat
  \/ disableJsonFormat
  \/ enablePrettyPrint
  \/ disablePrettyPrint
  \/ \E message \in ErrorMessages : log(message, <<>>)
  \/ \E message \in ErrorMessages : error(message, <<Str("tag1")>>)
  \/ \E message \in ErrorMessages : fatal(message, <<>>)

SpecError == InitError /\ [][NextError]_vars

\* a call of an entry point, in JSON format, on an active level, whose message
\* is an error
IsJsonCallOfError ==
  /\ IsCall(lastOp)
  /\ Has(logLevels, lastOp.op)
  /\ config.jsonFormat
  /\ lastOp.message.t = "error"

\* the value is a list of strings, with at least one
IsLinesOfText(v) ==
  /\ v.t = "list"
  /\ Len(v.c) >= 1
  /\ \A i \in 1..Len(v.c) : v.c[i].v.t = "string"

\* data is { error: { name, message, stack } } of the error thrown, with the keys
\* given besides
IsErrorData(data, thrown, keys) ==
  /\ data.t = "map"
  /\ Len(data.c) = 1
  /\ Keys(data) = {"error"}
  /\ LET e == Get(data, "error")
     IN /\ e.t = "map"
        /\ KeysAreDistinct(e)
        /\ Keys(e) = {"name", "message", "stack"} \cup keys
        /\ Get(e, "name") = Str("Error")
        /\ Get(e, "message") = Str(thrown.s)
        /\ IsLinesOfText(Get(e, "stack"))
        /\ "cause" \in keys => Get(e, "cause") = Get(thrown, "cause")

\* C19: in JSON format the data of a record whose message is an error is
\* exactly { error: { name, message, stack } } with the error's name and
\* message and the lines of its stack, a non-empty list of strings, plus cause,
\* which is there exactly when the error carries a cause; the call returns.
C19_ErrorDataHasCauseIffCarried ==
  IsJsonCallOfError
    => /\ IsJsonCall
       /\ IsErrorData(Get(WrittenRecord, "data"), lastOp.message,
                      Keys(lastOp.message) \cap {"cause"})

\* the same with cause there exactly when the error's cause is truthy
C19_ErrorDataHasTruthyCause ==
  IsJsonCallOfError
    => /\ IsJsonCall
       /\ IsErrorData(Get(WrittenRecord, "data"), lastOp.message,
                      IF Truthy(Get(lastOp.message, "cause"))
                        THEN {"cause"} ELSE {})

(***************************************************************************)
(* What the configuration methods return, under Spec.                      *)
(***************************************************************************)
Mutators ==
  {"setContext", "setOptions", "setLogLevels", "addLogLevel", "removeLogLevel",
   "setCtxParams", "resetTimestamp", "enableJsonFormat", "disableJsonFormat",
   "enablePrettyPrint", "disablePrettyPrint", "addField", "removeField",
   "setRedactKeys", "addRedactKey", "removeRedactKey"}

\* C20: every configuration method returns the logger it was called on, in
\* every state, so that the next method of a chain is called on that logger,
\* and the entry points return nothing.
C20_MutatorsReturnThis ==
  /\ lastOp.kind = "config"
       => (lastOp.op \in Mutators \cup {"constructor"}
             /\ lastOp.result = "returned" /\ lastOp.value = "this")
  /\ IsCall(lastOp) => lastOp.value = "undefined"

\* a second configuration method called on what the first returned
C20_Witness ==
  /\ lastOp.op = "addField"
  /\ lastOp.value = "this"
  /\ budget = MaxOps - 2
  /\ Has(redactKeys, "token")
  /\ Get(Map(additionalFields), "version") = Str("1.0.0")

(***************************************************************************)
(* SpecInstances: two loggers constructed from the same options object.    *)
(* The variables hold the logger the program is calling; probe holds the   *)
(* objects of both loggers by reference: heap maps each object to its      *)
(* contents, refs[i] names the objects the fields of logger i point to,    *)
(* prim[i] holds its fields that are not objects, saved[i] is the state    *)
(* logger i had when the program last left it, and echo[i] what it would   *)
(* have written then.  What the current logger changed in place is in the  *)
(* variables and is written to the heap, to the objects its fields point   *)
(* to, when the program turns to the other logger.  The program works with *)
(* the first logger, then with the second, then with the first again.      *)
(***************************************************************************)
\* the fields of a logger that hold an object
Containers ==
  {"config", "ctxParams", "additionalFields", "redactKeys", "logLevels"}

\* an object that logger i creates itself: the {} , [] and new Set() of its
\* field initialisers, the object literal of setOptions, a new Set(...)
OwnCell(i, field) == (IF i = 1 THEN "first." ELSE "second.") \o field

\* an array literal the caller passes to logger i alone
CallerArray(i) == IF i = 1 THEN "first.literal" ELSE "second.literal"

\* a Set that is the very object it is built from
sameObject(own, source) == source

\* new Set(source): an object of its own, with the members of the source
newSetObject(own, source) == own

\* the objects the fields of logger i point to after construction
constructedRefs(i) ==
  [config |-> OwnCell(i, "config"),
   ctxParams |-> OwnCell(i, "ctxParams"),
   additionalFields |-> OwnCell(i, "additionalFields"),
   redactKeys |-> newSetObject(OwnCell(i, "redactKeys"), "options.redactKeys"),
   logLevels |-> newSetObject(OwnCell(i, "logLevels"), "options.logLevels")]

\* the state of a logger constructed with the options given
constructedState(ctx, options) ==
  LET merged == mergedOptions(NoOptions, options)
  IN [config |-> merged,
      ctxParams |-> <<>>,
      additionalFields |-> <<>>,
      redactKeys |-> optionsRedactKeys(<<>>, merged),
      logLevels |-> optionsLogLevels(<<>>, merged),
      timestamp |-> 0,
      context |-> ctx,
      lastTick |-> 0]

\* the objects after both loggers are constructed
constructedHeap(ctx, options) ==
  LET state == constructedState(ctx, options)
      own == {OwnCell(i, f) : i \in 1..2, f \in Containers}
      foreign == {"options.redactKeys", "options.logLevels", "tags",
                  CallerArray(1), CallerArray(2)}
  IN [c \in own \cup foreign |->
        CASE c = "options.redactKeys" -> ArrayFrom(state.config.redactKeys)
          [] c = "options.logLevels" -> ArrayFrom(state.config.logLevels)
          [] c = "tags" -> <<Str("tag1")>>
          [] c \in {CallerArray(1), CallerArray(2)} -> <<Str("param1")>>
          [] OTHER -> state[CHOOSE f \in Containers :
                              c \in {OwnCell(1, f), OwnCell(2, f)}]]

\* the field of the current logger, as the variables hold it
Current(field) ==
  CASE field = "config" -> config
    [] field = "ctxParams" -> ctxParams
    [] field = "additionalFields" -> additionalFields
    [] field = "redactKeys" -> redactKeys
    [] field = "logLevels" -> logLevels

\* the heap and the fields with what the current logger holds written to them
WriteBack(p) ==
  [p EXCEPT
     !.heap = [c \in DOMAIN p.heap |->
                 IF \E f \in Containers : p.refs[p.cur][f] = c
                   THEN Current(CHOOSE f \in Containers : p.refs[p.cur][f] = c)
                   ELSE p.heap[c]],
     !.prim[p.cur] = [timestamp |-> timestamp, context |-> context,
                      lastTick |-> lastTick]]

\* the state of logger i: its fields, with the objects they point to
View(i, p) ==
  [config |-> p.heap[p.refs[i].config],
   ctxParams |-> p.heap[p.refs[i].ctxParams],
   additionalFields |-> p.heap[p.refs[i].additionalFields],
   redactKeys |-> p.heap[p.refs[i].redactKeys],
   logLevels |-> p.heap[p.refs[i].logLevels],
   timestamp |-> p.prim[i].timestamp,
   context |-> p.prim[i].context,
   lastTick |-> p.prim[i].lastTick]

\* what log({ user: 'a', password: 'b' }) would do on the current logger
Echo == logMessage("LOG", UserData, <<>>, "console.log")

InitInstances ==
  /\ env = Undefined
  /\ budget = -1
  /\ \E options \in {NoOptions,
                     [timestamp |-> TRUE,
                      redactKeys |-> Array(<<"password">>)]} :
       /\ newLogger(Str("TestContext"), options, NoOptions)
       /\ probe = [v |-> Undefined, r |-> <<>>,
                   heap |-> constructedHeap(Str("TestContext"), options),
                   refs |-> [i \in 1..2 |-> constructedRefs(i)],
                   prim |-> [i \in 1..2 |->
                               [timestamp |-> 0,
                                context |-> Str("TestContext"),
                                lastTick |-> 0]],
                   saved |-> [i \in 1..2 |->
                                constructedState(Str("TestContext"), options)],
                   echo |-> [i \in 1..2 |-> Echo],
                   cur |-> 1,
                   back |-> FALSE]

\* this.ctxParams = context, where context is the array object given
setCtxParamsBy(cell) ==
  /\ probe' = [WriteBack(probe) EXCEPT !.refs[probe.cur].ctxParams = cell]
  /\ ctxParams' = WriteBack(probe).heap[cell]
  /\ out' = <<>>
  /\ lastOp' = [op |-> "setCtxParams", kind |-> "config",
                message |-> Undefined, params |-> <<>>,
                result |-> "returned", ts |-> 0, value |-> "this"]
  /\ Spend
  /\ UNCHANGED <<config, timestamp, additionalFields, redactKeys, logLevels,
                 context, env, now, lastTick>>

\* the program turns to the other logger
Turn ==
  /\ ~probe.back
  /\ LET p == WriteBack(probe)
         j == 3 - probe.cur
         view == View(j, p)
     IN /\ probe' = [p EXCEPT !.cur = j, !.back = (j = 1),
                              !.saved[probe.cur] = View(probe.cur, p),
                              !.echo[probe.cur] = Echo]
        /\ config' = view.config
        /\ ctxParams' = view.ctxParams
        /\ additionalFields' = view.additionalFields
        /\ redactKeys' = view.redactKeys
        /\ logLevels' = view.logLevels
        /\ timestamp' = view.timestamp
        /\ context' = view.context
        /\ lastTick' = view.lastTick
  /\ out' = <<>>
  /\ lastOp' = [op |-> "turn", kind |-> "program", message |-> Undefined,
                params |-> <<>>, result |-> "returned", ts |-> 0,
                value |-> "undefined"]
  /\ UNCHANGED <<env, now, budget>>

NextInstances ==
  \/ /\ probe.cur = 2
     /\ \/ removeLogLevel("debug")
        \/ addRedactKey("token")
        \/ addField("version", Str("1.0.0"))
        \/ enableJsonFormat
        \/ setOptions([id |-> "MyService"])
        \/ setCtxParamsBy(CallerArray(2))
  \/ setCtxParamsBy("tags")
  \/ log(UserData, <<>>)
  \/ Turn

SpecInstances == InitInstances /\ [][NextInstances]_vars

\* C21: whatever the program does with one logger, the other logger keeps the
\* state it had when the program last left it (levels, redact keys,
\* additional fields, ctxParams, the options with the format toggles and the
\* service id, the timestamp tracker and the context), and when the program
\* turns to it again it would write what it would have written then.
C21_InstancesShareNoState ==
  LET p == WriteBack(probe)
  IN /\ View(3 - p.cur, p) = p.saved[3 - p.cur]
     /\ lastOp.op = "turn" => Echo = p.echo[p.cur]

\* both loggers were given the same array as ctxParams, the second was changed
\* in every field and then the first wrote a record
C21_Witness ==
  /\ probe.cur = 1
  /\ IsCall(lastOp) /\ Len(out) = 1
  /\ probe.refs[1].ctxParams = "tags"
  /\ probe.refs[2].ctxParams = "tags"
  /\ ctxParams = <<Str("tag1")>>
  /\ probe.saved[2].config.jsonFormat
  /\ probe.saved[2].config.id = "MyService"
  /\ Has(probe.saved[2].redactKeys, "token")
  /\ ~Has(probe.saved[2].logLevels, "debug")
  /\ probe.saved[2].additionalFields # <<>>
  /\ probe.saved[2].timestamp > 0
  /\ ~config.jsonFormat
  /\ timestamp > 0

(***************************************************************************)
(* SpecElapsed: records are written on every rendering path while the      *)
(* clock advances and timestamping is switched on and off.  probe keeps    *)
(* the history of the records: emitted is the clock reading of the last    *)
(* record written and stamped that of the last record written with         *)
(* timestamping enabled (0 if there is none), and emittedBefore and        *)
(* stampedBefore are what they were before the last record.                *)
(***************************************************************************)
\* the call of an entry point, with the history of the records kept
CalledRecorded(op, message, optionalParams, outcome) ==
  LET done == outcome IN
  /\ SpendAll
  /\ out' = done.writes
  /\ timestamp' = done.timestamp
  /\ lastTick' = IF done.result = "returned" /\ TimestampEnabled
                   THEN now ELSE lastTick
  /\ lastOp' = [op |-> op, kind |-> "call", message |-> message,
                params |-> optionalParams, result |-> done.result,
                ts |-> timestamp, value |-> "undefined"]
  /\ probe' = IF done.result = "returned"
                THEN [probe EXCEPT
                        !.emittedBefore = probe.emitted,
                        !.emitted = now,
                        !.stampedBefore = probe.stamped,
                        !.stamped = IF TimestampEnabled THEN now ELSE @]
                ELSE probe
  /\ UNCHANGED <<config, ctxParams, additionalFields, redactKeys, logLevels,
                 context, env, now>>

logRecorded(message, optionalParams) ==
  CalledRecorded("log", message, optionalParams,
                 Gate("log", logMessage("LOG", message, optionalParams,
                                        "console.log")))

errorRecorded(message, optionalParams) ==
  CalledRecorded("error", message, optionalParams,
                 Gate("error", logMessage("ERROR", message, optionalParams,
                                          "console.error")))

InitElapsed ==
  /\ env = Undefined
  /\ budget = -1
  /\ \E options \in {NoOptions, [timestamp |-> TRUE]} :
       newLogger(Str("TestContext"), options, NoOptions)
  /\ probe = [v |-> Undefined, r |-> <<>>, emitted |-> 0, emittedBefore |-> 0,
              stamped |-> 0, stampedBefore |-> 0]

NextElapsed ==
  \/ Tick
  \/ \E options \in {[timestamp |-> TRUE], [timestamp |-> FALSE]} :
       setOptions(options)
  \/ enableJsonFormat
  \/ disableJsonFormat
  \/ \E message \in {Str("hello"), UserData, Err("boom", <<>>)} :
       logRecorded(message, <<>>)
  \/ errorRecorded(Str("hello"), <<Str("tag1")>>)

SpecElapsed == InitElapsed /\ [][NextElapsed]_vars

\* the number of places where part occurs in text
Count(text, part) ==
  Cardinality({i \in 1..(Len(text) - Len(part) + 1) :
                 SubSeq(text, i, i + Len(part) - 1) = part})

\* the number of timestamp diffs the one record of writes reports
DiffsReported(writes) ==
  IF writes[1].format = "json"
    THEN Count(writes[1].json, <<Tok("string", "timestampDiff", 0)>>)
    ELSE LET Shown(d) == "+" \o ToString(d) \o "ms"
             RECURSIVE UpTo(_)
             UpTo(d) ==
               IF d < 0 THEN 0
               ELSE Count(writes[1].args[3], Shown(d))
                      + Count(writes[1].args[4], Shown(d)) + UpTo(d - 1)
         IN UpTo(MaxClock)

\* a call of an entry point that wrote its record
IsEmission == IsCall(lastOp) /\ lastOp.result = "returned" /\ Len(out) = 1

\* C22: with timestamping enabled every record that is written, in text with
\* a string message, in text with a structured message or an error, and in
\* JSON, reports one timestamp diff, the one between the clock and the tracker
\* as the call found it, and leaves the clock reading in the tracker; with
\* timestamping disabled the record reports no diff and the tracker is as the
\* call found it.
C22_OneTickPerRecord ==
  IsEmission
    => IF TimestampEnabled
         THEN /\ DiffsReported(out) = 1
              /\ ReportsDiff(out, IF lastOp.ts > 0 THEN now - lastOp.ts ELSE 0)
              /\ timestamp = now
         ELSE /\ DiffsReported(out) = 0
              /\ timestamp = lastOp.ts

\* a record of an error in text format, two milliseconds after the record
\* before it, and a record in text format with a string message after a tick
C22_Witness ==
  /\ IsEmission
  /\ TimestampEnabled
  /\ ~config.jsonFormat
  /\ lastOp.message.t = "error"
  /\ lastOp.ts = 1
  /\ timestamp = 3
  /\ DiffsReported(out) = 1

SelfCausedError == Err("boom", <<Entry("cause", Ref)>>)

InitTracker ==
  /\ env = Undefined
  /\ budget = -1
  /\ \E options \in {NoOptions, [timestamp |-> TRUE, jsonFormat |-> TRUE]} :
       constructor(Str("TestContext"), options, NoOptions)

NextTracker ==
  \/ Tick
  \/ resetTimestamp
  \/ \E options \in {[timestamp |-> TRUE], [timestamp |-> FALSE]} :
       setOptions(options)
  \/ enableJsonFormat
  \/ disableJsonFormat
  \/ removeLogLevel("log")
  \/ addLogLevel("log")
  \/ addField("version", Str("1.0.0"))
  \/ \E message \in {Str("hello"), UserData, SelfCausedError} :
       log(message, <<>>)
  \/ error(Str("hello"), <<Str("tag1")>>)

SpecTracker == InitTracker /\ [][NextTracker]_vars

\* C24: this.timestamp changes in two ways only: a record written with
\* timestamping enabled sets it to the clock reading and resetTimestamp()
\* sets it to 0; every other operation leaves it as it was, so that but for
\* resetTimestamp() it never decreases.
C24_TrackerChangesWithRecordsAndResets ==
  [][/\ IF IsCall(lastOp') /\ lastOp'.result = "returned" /\ TimestampEnabled
          THEN timestamp' = now
          ELSE IF lastOp'.op = "resetTimestamp"
                 THEN timestamp' = 0
                 ELSE timestamp' = timestamp
     /\ lastOp'.op # "resetTimestamp" => timestamp' >= timestamp]_vars

\* the same, with the calls on an active level that reach the renderer in
\* place of the records written
C24_TrackerChangesWithTicksAndResets ==
  [][/\ IF /\ IsCall(lastOp') /\ Has(logLevels, lastOp'.op) /\ TimestampEnabled
           /\ \/ lastOp'.result = "returned"
              \/ config.jsonFormat /\ lastOp'.result = "TypeError"
          THEN timestamp' = now
          ELSE IF lastOp'.op = "resetTimestamp"
                 THEN timestamp' = 0
                 ELSE timestamp' = timestamp
     /\ lastOp'.op # "resetTimestamp" => timestamp' >= timestamp]_vars

(***************************************************************************)
(* SpecFrame: the entry points with the objects of a call held by          *)
(* reference.  A call has the caller's message, the array optionalParams   *)
(* of its parameters, this.ctxParams, and the objects it creates; probe    *)
(* holds the message and optionalParams as the call left them.             *)
(***************************************************************************)
\* an array that is the very array it is mapped from
mapInPlace(array) == array

\* params.map(...) in logMessage: a new array, which wrapMessage and
\* wrapParams are given
processedParamsOf(array) == "processedParams"

\* const result = {} and obj.map(...) in redactSensitiveData: a new object
redactedCopyOf(obj) == "result"

\* what wrapParams pushes to the array it is given: the +Nms of a call in text
\* format whose message is not a string, with timestamping enabled
pushedByWrapParams(message, done) ==
  IF done.result = "returned" /\ ~config.jsonFormat /\ message.t # "string"
       /\ TimestampEnabled
    THEN <<Str("+" \o ToString(getTimestampDiff(timestamp).diff) \o "ms")>>
    ELSE <<>>

\* the entry point op called with the message and the parameters given
callByReference(op, message, optionalParams) ==
  LET done == Gate(op, logMessage(LevelOf(op), message, optionalParams,
                                  SinkOf(op)))
      pushed == pushedByWrapParams(message, done)
      After(array, contents) ==
        IF processedParamsOf("optionalParams") = array
          THEN contents \o pushed ELSE contents
      redacts == done.result = "returned" /\ config.jsonFormat
                   /\ message.t \in {"list", "map"}
  IN /\ SpendAll
     /\ out' = done.writes
     /\ timestamp' = done.timestamp
     /\ lastTick' = IF done.result = "returned" /\ TimestampEnabled
                      THEN now ELSE lastTick
     /\ lastOp' = [op |-> op, kind |-> "call", message |-> message,
                   params |-> optionalParams, result |-> done.result,
                   ts |-> timestamp, value |-> "undefined"]
     /\ ctxParams' = After("this.ctxParams", ctxParams)
     /\ probe' = [probe EXCEPT
                    !.optionalParams = After("optionalParams", optionalParams),
                    !.message = IF redacts /\ redactedCopyOf("message") = "message"
                                  THEN redactSensitiveData(message)
                                  ELSE message]
     /\ UNCHANGED <<config, additionalFields, redactKeys, logLevels, context,
                    env, now>>

InitFrame ==
  /\ env = Undefined
  /\ budget = -1
  /\ \E options \in {NoOptions,
                     [timestamp |-> TRUE,
                      redactKeys |-> Array(<<"password">>)]} :
       newLogger(Str("TestContext"), options, NoOptions)
  /\ probe = [v |-> Undefined, r |-> <<>>, message |-> Undefined,
              optionalParams |-> <<>>]

NextFrame ==
  \/ setCtxParams(<<Str("param1"), Str("param2")>>)
  \/ enableJsonFormat
  \/ disableJsonFormat
  \/ removeLogLevel("debug")
  \/ addField("version", Str("1.0.0"))
  \/ \E op \in Members(AllLevels), message \in {Str("hello"), UserData},
        optionalParams \in {<<>>, <<Str("tag1"), UserData>>} :
       callByReference(op, message, optionalParams)

SpecFrame == InitFrame /\ [][NextFrame]_vars

\* C25: a call of an entry point, written or gated out, in text or JSON
\* format, with timestamping on or off, leaves the active levels, the redact
\* keys, the additional fields, ctxParams (no +Nms is appended), the context
\* and the options with the service id and the format toggles as they were,
\* and leaves the caller's message and parameter list as they were given.
C25_CallsLeaveTheConfigurationAlone ==
  [][IsCall(lastOp')
       => /\ logLevels' = logLevels
          /\ redactKeys' = redactKeys
          /\ config' = config
          /\ additionalFields' = additionalFields
          /\ ctxParams' = ctxParams
          /\ context' = context
          /\ probe'.optionalParams = lastOp'.params
          /\ probe'.message = lastOp'.message]_vars

\* a text record of a mapping with timestamping enabled: wrapParams has pushed
\* +0ms, and ctxParams and the parameter list are as they were
C25_Witness ==
  /\ IsEmission
  /\ ~config.jsonFormat
  /\ TimestampEnabled
  /\ lastOp.message = UserData
  /\ lastOp.op = "warn"
  /\ Contains(out[1].args[3], "[+0ms]")
  /\ ctxParams = <<Str("param1"), Str("param2")>>
  /\ probe.optionalParams = <<Str("tag1"), UserData>>
  /\ additionalFields # <<>>

(***************************************************************************)
(* Removing and adding redact keys in another case, under SpecRedaction.   *)
(***************************************************************************)
\* the keys equal to key but for the case of their letters
SameIgnoringCase(key) ==
  {k \in ProbeKeys : toLowerCase(k) = toLowerCase(key)}

\* C26: removeRedactKey(key) removes the redact key whatever the case it was
\* added in: afterwards getRedactKeys() has no key equal to it ignoring case
\* and no such key of a mapping is redacted; and addRedactKey of a key that
\* differs only in case from one that is there adds nothing.
C26_RedactKeysIgnoreCase ==
  [][/\ \A key \in {"password", "token"} :
          removeRedactKey(key)
            => \A k \in SameIgnoringCase(key) :
                 ~Has(getRedactKeys', k) /\ ~shouldRedact(k)'
     /\ \A key \in {"Password", "token"} :
          (addRedactKey(key) /\ Matches(getRedactKeys, key))
            => getRedactKeys' = getRedactKeys]_vars

\* what holds: removeRedactKey(key) removes the key in the very case given,
\* and addRedactKey of a key that is there in that very case adds nothing
C26_RedactKeysInTheCaseGiven ==
  [][/\ \A key \in {"password", "token"} :
          removeRedactKey(key)
            => /\ ~Has(getRedactKeys', key)
               /\ \A k \in ProbeKeys \ {key} :
                    Has(getRedactKeys', k) <=> Has(getRedactKeys, k)
     /\ \A key \in {"Password", "token"} :
          (addRedactKey(key) /\ Has(getRedactKeys, key))
            => getRedactKeys' = getRedactKeys]_vars

(***************************************************************************)
(* SpecCause: errors that hold a value under a redact key, in a structured *)
(* cause or as a property of their own, are logged in JSON and text format *)
(* by a logger that redacts password.                                      *)
(***************************************************************************)
\* e = new Error('boom', { cause: { password: 'a', code: 7 } }), and
\* e = new Error('boom'); e.password = 'a'
SensitiveErrors ==
  {Err("boom", <<>>),
   Err("boom", <<Entry("cause", Str("root"))>>),
   Err("boom", <<Entry("cause", Map(<<Entry("password", Str("a")),
                                      Entry("code", Num(7))>>))>>),
   Err("boom", <<Entry("password", Str("a"))>>)}

\* the error with the value under every key that matches one of the keys, among
\* its own properties and inside them, replaced by secret
ErrorWithSecret(keys, e, secret) ==
  Err(e.s, [i \in 1..Len(e.c) |->
              Entry(e.c[i].k,
                    IF Matches(keys, e.c[i].k) THEN secret
                    ELSE WithSecret(keys, e.c[i].v, secret))])

InitCause ==
  /\ env = Undefined
  /\ budget = -1
  /\ \E options \in {[redactKeys |-> Array(<<"password">>)],
                     [jsonFormat |-> TRUE,
                      redactKeys |-> Array(<<"password">>)]} :
       constructor(Str("TestContext"), options, NoOptions)

NextCause ==
  \/ Tick
  \/ enableJsonFormat
  \/ disableJsonFormat
  \/ enablePrettyPrint
  \/ disablePrettyPrint
  \/ \E message \in SensitiveErrors : log(message, <<>>)
  \/ \E message \in SensitiveErrors : error(message, <<Str("tag1")>>)

SpecCause == InitCause /\ [][NextCause]_vars

\* a call of an entry point that returned, on an active level, whose message is
\* an error
IsCallOfError ==
  /\ IsCall(lastOp)
  /\ lastOp.result = "returned"
  /\ Has(logLevels, lastOp.op)
  /\ lastOp.message.t = "error"

\* what the call would have written had the error held secret under its
\* redact keys
WritesWithSecret(secret) ==
  logMessage(LevelOf(lastOp.op),
             ErrorWithSecret(ArrayFrom(config.redactKeys), lastOp.message,
                             secret),
             lastOp.params, SinkOf(lastOp.op)).writes

\* C27: a call whose message is an error writes, in JSON and in text format,
\* the same output whatever the error stores under a redact key, as a property
\* of its own or anywhere inside a structured cause: put any other value in
\* place of those values and the call writes what it wrote.
C27_ErrorOutputHidesRedactedValues ==
  IsCallOfError
    => \A secret \in {Str("a"), Str("b")} : WritesWithSecret(secret) = out

\* what holds: in JSON format the output is the same whatever the error stores
\* under a redact key outside its cause
C27_JsonHidesPropertiesButTheCause ==
  (/\ IsCallOfError
   /\ config.jsonFormat
   /\ \A secret \in {Str("a"), Str("b")} :
        Get(ErrorWithSecret(ArrayFrom(config.redactKeys), lastOp.message,
                            secret), "cause")
          = Get(lastOp.message, "cause"))
    => \A secret \in {Str("a"), Str("b")} : WritesWithSecret(secret) = out

=============================================================================
